---------------------------- MODULE Spec2Model ----------------------------
(***************************************************************************)
(* tuiflix: the stream-resolution pipeline of internal/api/client.go and   *)
(* its caller openStreamCmd of internal/app/commands.go.                   *)
(*                                                                         *)
(* Go strings are modelled as sequences of one-character strings, so that  *)
(* strings.ToLower, HasPrefix, HasSuffix, TrimSpace and url.QueryEscape    *)
(* are computed character by character; the empty string is << >>.         *)
(***************************************************************************)
EXTENDS Integers, Sequences, FiniteSets, Bags, TLC

(***************************************************************************)
(* Go string functions used by the code.                                   *)
(***************************************************************************)
UpperChars == << "A", "B", "C", "D", "E", "F", "G", "H", "I", "J", "K", "L", "M",
                 "N", "O", "P", "Q", "R", "S", "T", "U", "V", "W", "X", "Y", "Z" >>

LowerChars == << "a", "b", "c", "d", "e", "f", "g", "h", "i", "j", "k", "l", "m",
                 "n", "o", "p", "q", "r", "s", "t", "u", "v", "w", "x", "y", "z" >>

UpperSet == {UpperChars[k] : k \in DOMAIN UpperChars}

LowerOf == [c \in UpperSet |-> LowerChars[CHOOSE k \in DOMAIN UpperChars : UpperChars[k] = c]]

ToLowerChar(c) == IF c \in UpperSet THEN LowerOf[c] ELSE c

\* strings.ToLower
ToLower(s) == [k \in 1..Len(s) |-> ToLowerChar(s[k])]

\* strings.HasPrefix
HasPrefix(s, prefix) ==
    /\ Len(s) >= Len(prefix)
    /\ SubSeq(s, 1, Len(prefix)) = prefix

\* strings.HasSuffix
HasSuffix(s, suffix) ==
    /\ Len(s) >= Len(suffix)
    /\ SubSeq(s, Len(s) - Len(suffix) + 1, Len(s)) = suffix

\* strings.TrimPrefix
TrimPrefix(s, prefix) ==
    IF HasPrefix(s, prefix) THEN SubSeq(s, Len(prefix) + 1, Len(s)) ELSE s

\* A rune is a string: the character itself, or, for a rune that cannot be
\* written in a string of this module, its name.  The runes with a name and
\* their code points: vertical tab, next line, no-break space and the space
\* separators of Unicode.
NamedRunes ==
    [name \in {"VT", "NEL", "NBSP", "U+1680", "U+2000", "U+2001", "U+2002", "U+2003",
               "U+2004", "U+2005", "U+2006", "U+2007", "U+2008", "U+2009", "U+200A",
               "U+2028", "U+2029", "U+202F", "U+205F", "U+3000"} |->
        CASE name = "VT"     -> 11
          [] name = "NEL"    -> 133
          [] name = "NBSP"   -> 160
          [] name = "U+1680" -> 5760
          [] name = "U+2000" -> 8192
          [] name = "U+2001" -> 8193
          [] name = "U+2002" -> 8194
          [] name = "U+2003" -> 8195
          [] name = "U+2004" -> 8196
          [] name = "U+2005" -> 8197
          [] name = "U+2006" -> 8198
          [] name = "U+2007" -> 8199
          [] name = "U+2008" -> 8200
          [] name = "U+2009" -> 8201
          [] name = "U+200A" -> 8202
          [] name = "U+2028" -> 8232
          [] name = "U+2029" -> 8233
          [] name = "U+202F" -> 8239
          [] name = "U+205F" -> 8287
          [] OTHER           -> 12288]

\* unicode.IsSpace: tab, line feed, vertical tab, form feed, carriage
\* return, space, U+0085, U+00A0 and the space separators.
IsSpace(c) == c \in {" ", "\t", "\n", "\f", "\r"} \cup DOMAIN NamedRunes

RECURSIVE TrimLeft(_)
TrimLeft(s) ==
    IF s # << >> /\ IsSpace(Head(s)) THEN TrimLeft(Tail(s)) ELSE s

RECURSIVE TrimRight(_)
TrimRight(s) ==
    IF s # << >> /\ IsSpace(s[Len(s)]) THEN TrimRight(SubSeq(s, 1, Len(s) - 1)) ELSE s

\* strings.TrimSpace
TrimSpace(s) == TrimRight(TrimLeft(s))

\* The characters with the codes 32 to 126, in the order of their codes (the
\* grave accent, code 96, by its name).
AsciiChars == << " ", "!", "\"", "#", "$", "%", "&", "'", "(", ")", "*", "+",
                   ",", "-", ".", "/", "0", "1", "2", "3", "4", "5", "6", "7",
                   "8", "9", ":", ";", "<", "=", ">", "?", "@", "A", "B", "C",
                   "D", "E", "F", "G", "H", "I", "J", "K", "L", "M", "N", "O",
                   "P", "Q", "R", "S", "T", "U", "V", "W", "X", "Y", "Z", "[",
                   "\\", "]", "^", "_", "GRAVE", "a", "b", "c", "d", "e", "f", "g",
                   "h", "i", "j", "k", "l", "m", "n", "o", "p", "q", "r", "s",
                   "t", "u", "v", "w", "x", "y", "z", "{", "|", "}", "~" >>

\* The code point of a rune.
RuneCode(c) ==
    CASE c \in DOMAIN NamedRunes -> NamedRunes[c]
      [] c = "\t" -> 9
      [] c = "\n" -> 10
      [] c = "\f" -> 12
      [] c = "\r" -> 13
      [] OTHER    -> 31 + (CHOOSE k \in DOMAIN AsciiChars : AsciiChars[k] = c)

\* The bytes of a rune in UTF-8.
Utf8(cp) ==
    IF cp < 128 THEN << cp >>
    ELSE IF cp < 2048 THEN << 192 + (cp \div 64), 128 + (cp % 64) >>
    ELSE << 224 + (cp \div 4096), 128 + ((cp \div 64) % 64), 128 + (cp % 64) >>

HexDigits == << "0", "1", "2", "3", "4", "5", "6", "7", "8", "9",
                "A", "B", "C", "D", "E", "F" >>

\* %XX for one byte.
PercentByte(b) == << "%", HexDigits[(b \div 16) + 1], HexDigits[(b % 16) + 1] >>

\* The letters, digits and - _ . ~, which url.QueryEscape keeps.
Unreserved ==
    {AsciiChars[k] : k \in {k \in DOMAIN AsciiChars :
                               \/ 31 + k \in 48..57
                               \/ 31 + k \in 65..90
                               \/ 31 + k \in 97..122
                               \/ 31 + k \in {45, 95, 46, 126}}}

\* url.QueryEscape on one rune: letters, digits and - _ . ~ are kept, a
\* space becomes +, every other byte becomes %XX.
EscapeChar(c) ==
    IF c \in Unreserved THEN << c >>
    ELSE IF c = " " THEN << "+" >>
    ELSE LET bytes == Utf8(RuneCode(c))
         IN  IF Len(bytes) = 1 THEN PercentByte(bytes[1])
             ELSE IF Len(bytes) = 2 THEN PercentByte(bytes[1]) \o PercentByte(bytes[2])
             ELSE PercentByte(bytes[1]) \o PercentByte(bytes[2]) \o PercentByte(bytes[3])

RECURSIVE QueryEscape(_)
QueryEscape(s) ==
    IF s = << >> THEN << >> ELSE EscapeChar(Head(s)) \o QueryEscape(Tail(s))

(***************************************************************************)
(* File Selector: pickFileID and isLikelyVideo.                            *)
(***************************************************************************)
\* A *int is a sequence of at most one integer: << >> is the nil pointer.
NilIdx == << >>

Ptr(n) == << n >>

VideoExts == << << ".", "m", "k", "v" >>, << ".", "m", "p", "4" >>,
                << ".", "a", "v", "i" >>, << ".", "m", "o", "v" >>,
                << ".", "m", "4", "v" >>, << ".", "w", "m", "v" >>,
                << ".", "w", "e", "b", "m" >>, << ".", "t", "s" >> >>

isLikelyVideo(filePath) ==
    LET lower == ToLower(filePath)
    IN  \E k \in DOMAIN VideoExts : HasSuffix(lower, VideoExts[k])

\* bestVideo with >= for >: at a tie the later file wins.
RECURSIVE bestVideo_LastWins(_, _, _, _)
bestVideo_LastWins(files, k, bestID, bestBytes) ==
    IF k > Len(files) THEN bestID
    ELSE IF ~isLikelyVideo(files[k].Path)
         THEN bestVideo_LastWins(files, k + 1, bestID, bestBytes)
    ELSE IF files[k].Bytes >= bestBytes
         THEN bestVideo_LastWins(files, k + 1, files[k].ID, files[k].Bytes)
         ELSE bestVideo_LastWins(files, k + 1, bestID, bestBytes)

\* The loop of pickFileID from position k on, with the running best so far.
RECURSIVE bestVideo(_, _, _, _)
bestVideo(files, k, bestID, bestBytes) ==
    IF k > Len(files) THEN bestID
    ELSE IF ~isLikelyVideo(files[k].Path) THEN bestVideo(files, k + 1, bestID, bestBytes)
    ELSE IF files[k].Bytes > bestBytes
         THEN bestVideo(files, k + 1, files[k].ID, files[k].Bytes)
         ELSE bestVideo(files, k + 1, bestID, bestBytes)

\* pickFileID answering the explicit index itself, not the id found there.
pickFileID_ReturnsIndex(files, fileIdx) ==
    IF Len(files) = 0 THEN 0
    ELSE IF fileIdx # NilIdx /\ fileIdx[1] >= 0 /\ fileIdx[1] < Len(files)
    THEN fileIdx[1]
    ELSE LET bestID == bestVideo(files, 1, 0, -1)
         IN  IF bestID # 0 THEN bestID ELSE files[1].ID

\* pickFileID with idx > 0 for idx >= 0: an explicit index 0 is ignored.
pickFileID_IdxPositive(files, fileIdx) ==
    IF Len(files) = 0 THEN 0
    ELSE IF fileIdx # NilIdx /\ fileIdx[1] > 0 /\ fileIdx[1] < Len(files)
    THEN files[fileIdx[1] + 1].ID
    ELSE LET bestID == bestVideo(files, 1, 0, -1)
         IN  IF bestID # 0 THEN bestID ELSE files[1].ID

\* pickFileID without the fallback to the first entry.
pickFileID_NoFallback(files, fileIdx) ==
    IF Len(files) = 0 THEN 0
    ELSE IF fileIdx # NilIdx /\ fileIdx[1] >= 0 /\ fileIdx[1] < Len(files)
    THEN files[fileIdx[1] + 1].ID
    ELSE bestVideo(files, 1, 0, -1)

\* pickFileID answering -1, not 0, for an empty manifest.
pickFileID_EmptyMinusOne(files, fileIdx) ==
    IF Len(files) = 0 THEN -1
    ELSE IF fileIdx # NilIdx /\ fileIdx[1] >= 0 /\ fileIdx[1] < Len(files)
    THEN files[fileIdx[1] + 1].ID
    ELSE LET bestID == bestVideo(files, 1, 0, -1)
         IN  IF bestID # 0 THEN bestID ELSE files[1].ID

\* Go's 0-based info.Files[idx] is files[idx + 1] here.
pickFileID(files, fileIdx) ==
    IF Len(files) = 0 THEN 0
    ELSE IF fileIdx # NilIdx /\ fileIdx[1] >= 0 /\ fileIdx[1] < Len(files)
    THEN files[fileIdx[1] + 1].ID
    ELSE LET bestID == bestVideo(files, 1, 0, -1)
         IN  IF bestID # 0 THEN bestID ELSE files[1].ID

(***************************************************************************)
(* Descriptor Normalizer: classification and buildMagnet.                  *)
(***************************************************************************)
S_http == << "h", "t", "t", "p" >>

S_magnet == << "m", "a", "g", "n", "e", "t", ":" >>

S_tracker == << "t", "r", "a", "c", "k", "e", "r", ":" >>

S_btih == << "m", "a", "g", "n", "e", "t", ":", "?", "x", "t", "=",
             "u", "r", "n", ":", "b", "t", "i", "h", ":" >>

S_tr == << "&", "t", "r", "=" >>

\* appendTrackers keeping the white space around a tracker value.
RECURSIVE appendTrackers_NoTrim(_, _, _, _)
appendTrackers_NoTrim(magnet, sources, k, seen) ==
    IF k > Len(sources) THEN magnet
    ELSE IF ~HasPrefix(sources[k], S_tracker)
         THEN appendTrackers_NoTrim(magnet, sources, k + 1, seen)
    ELSE LET tracker == TrimPrefix(sources[k], S_tracker)
         IN  IF tracker = << >> \/ tracker \in seen
             THEN appendTrackers_NoTrim(magnet, sources, k + 1, seen)
             ELSE appendTrackers_NoTrim(magnet \o S_tr \o QueryEscape(tracker),
                                        sources, k + 1, seen \cup {tracker})

\* The loop of buildMagnet without the test on seen.
RECURSIVE appendTrackers_NoDedup(_, _, _, _)
appendTrackers_NoDedup(magnet, sources, k, seen) ==
    IF k > Len(sources) THEN magnet
    ELSE IF ~HasPrefix(sources[k], S_tracker)
         THEN appendTrackers_NoDedup(magnet, sources, k + 1, seen)
    ELSE LET tracker == TrimSpace(TrimPrefix(sources[k], S_tracker))
         IN  IF tracker = << >>
             THEN appendTrackers_NoDedup(magnet, sources, k + 1, seen)
             ELSE appendTrackers_NoDedup(magnet \o S_tr \o QueryEscape(tracker),
                                         sources, k + 1, seen \cup {tracker})

\* The loop of buildMagnet over sources from position k on; seen is the set
\* of tracker values already appended.
RECURSIVE appendTrackers(_, _, _, _)
appendTrackers(magnet, sources, k, seen) ==
    IF k > Len(sources) THEN magnet
    ELSE IF ~HasPrefix(sources[k], S_tracker)
         THEN appendTrackers(magnet, sources, k + 1, seen)
    ELSE LET tracker == TrimSpace(TrimPrefix(sources[k], S_tracker))
         IN  IF tracker = << >> \/ tracker \in seen
             THEN appendTrackers(magnet, sources, k + 1, seen)
             ELSE appendTrackers(magnet \o S_tr \o QueryEscape(tracker),
                                 sources, k + 1, seen \cup {tracker})

\* buildMagnet without the test for an empty info-hash.
buildMagnet_NoEmptyCheck(stream) ==
    appendTrackers(S_btih \o ToLower(stream.InfoHash), stream.Sources, 1, {})

buildMagnet(stream) ==
    IF stream.InfoHash = << >> THEN << >>
    ELSE appendTrackers(S_btih \o ToLower(stream.InfoHash), stream.Sources, 1, {})

\* ResolvePlayableURL, line 205: the direct-URL test.
IsDirectURL(u) == u # << >> /\ HasPrefix(ToLower(u), S_http)

\* ResolvePlayableURL, line 218: the magnet-URI test.
IsMagnetURI(u) == HasPrefix(ToLower(u), S_magnet)

\* magnetOf synthesizing the magnet whenever the stream has an infoHash.
magnetOf_PreferHash(stream) ==
    IF stream.InfoHash # << >> THEN buildMagnet(stream) ELSE stream.URL

\* ResolvePlayableURL, lines 217-220: the magnet of a descriptor that is not a
\* direct URL.
magnetOf(stream) ==
    IF IsMagnetURI(stream.URL) THEN stream.URL ELSE buildMagnet(stream)

(***************************************************************************)
(* Errors.  NoErr is Go's nil error.                                       *)
(***************************************************************************)
NoErr == "nil"

\* http.Client.Do failed (the transport, or a context already done).
ErrTransport == "transport error"

\* fmt.Errorf("real-debrid request failed (%d): %s"): a response >= 300.
ErrStatus == "real-debrid request failed"

\* json.Decoder.Decode failed on a 2xx body.
ErrDecode == "json decode error"

ErrEmptyID == "real-debrid returned empty torrent id"

ErrNoFiles == "select files requires at least one file"

ErrPick == "failed to pick torrent file"

ErrMetadataTimeout == "torrent metadata did not become available"

ErrLinksTimeout == "timeout waiting for debrid links"

ErrNoLinks == "torrent has no links"

ErrEmptyDownload == "real-debrid returned empty download link"

\* ctx.Err(): context.Canceled or context.DeadlineExceeded.
ErrCancelled == "context done"

ErrNoPlayable == "stream does not include a playable URL"

\* player.OpenIINA failed.
ErrPlayer == "player error"

(***************************************************************************)
(* The unlock service as the client sees it: one response per request.     *)
(* kind is "transport" (Do returned an error), "status" (a response with   *)
(* StatusCode >= 300), "decode" (2xx, body not decodable) or "ok" (2xx     *)
(* with the decoded payload in the other fields).                          *)
(***************************************************************************)
Resp(kind, id, files, links, download) ==
    [kind |-> kind, id |-> id, files |-> files, links |-> links, download |-> download]

\* A (value, error) pair returned by a function of the unlock client.
Val(val, err) == [val |-> val, err |-> err]

\* The (string, error) pair returned by ResolvePlayableURL.
Result(url, err) == [url |-> url, err |-> err]

\* realDebrid.postForm and realDebrid.getJSON: the error they return for a
\* response; hasOut is FALSE for postForm with out == nil (no decoding).
httpErr(r, hasOut) ==
    CASE r.kind = "transport"          -> ErrTransport
      [] r.kind = "status"             -> ErrStatus
      [] r.kind = "decode" /\ hasOut   -> ErrDecode
      [] OTHER                         -> NoErr

\* addMagnet taking every response for a registration.
addMagnet_NoChecks(r) == [val |-> r.id, err |-> "nil"]

\* addMagnet taking an accepted registration without an id for a success.
addMagnet_NoEmptyCheck(r) ==
    IF r.kind # "ok"
    THEN [val |-> << >>, err |-> "request failed"]
    ELSE [val |-> r.id, err |-> "nil"]

\* realDebrid.addMagnet on the response r.
addMagnet(r) ==
    IF httpErr(r, TRUE) # NoErr THEN Val(<< >>, httpErr(r, TRUE))
    ELSE IF r.id = << >> THEN Val(<< >>, ErrEmptyID)
    ELSE Val(r.id, NoErr)

\* torrentInfo taking a failed request for a torrent without files or links.
torrentInfo_SwallowErr(r) ==
    IF r.kind # "ok"
    THEN [val |-> [Files |-> << >>, Links |-> << >>], err |-> "nil"]
    ELSE [val |-> [Files |-> r.files, Links |-> r.links], err |-> "nil"]

\* realDebrid.torrentInfo on the response r.
torrentInfo(r) ==
    IF httpErr(r, TRUE) # NoErr
    THEN Val([Files |-> << >>, Links |-> << >>], httpErr(r, TRUE))
    ELSE Val([Files |-> r.files, Links |-> r.links], NoErr)

\* The id list naming the picked file twice.
selectedIDs_Twice(id) == << id, id >>

\* resolveMagnet, line 329: the id list handed to selectFiles.
selectedIDs(id) == << id >>

\* The test of the picked id that never stops the attempt.
pickFailed_Never(id) == FALSE

\* resolveMagnet, line 326: the picked file id 0 stops the attempt.
pickFailed(id) == id = 0

\* selectFiles reporting success whatever the response.
selectFiles_IgnoreErr(fileIDs, r) == "nil"

\* realDebrid.selectFiles: the request is sent only for a non-empty id list.
selectFiles(fileIDs, r) ==
    IF Len(fileIDs) = 0 THEN ErrNoFiles ELSE httpErr(r, FALSE)

\* unrestrictLink taking an accepted request without a download URL for a
\* success.
unrestrictLink_NoEmptyCheck(r) ==
    IF r.kind # "ok"
    THEN [val |-> << >>, err |-> "request failed"]
    ELSE [val |-> r.download, err |-> "nil"]

\* realDebrid.unrestrictLink on the response r.
unrestrictLink(r) ==
    IF httpErr(r, TRUE) # NoErr THEN Val(<< >>, httpErr(r, TRUE))
    ELSE IF r.download = << >> THEN Val(<< >>, ErrEmptyDownload)
    ELSE Val(r.download, NoErr)

\* enabled answering TRUE whatever the token.
enabled_Always(token) == TRUE

\* realDebrid.enabled.
enabled(token) == TrimSpace(token) # << >>

\* directResult without the fallback: the failed call's empty link is returned.
directResult_NoFallback(rawURL, link, err) == [url |-> link, err |-> "nil"]

\* ResolvePlayableURL, lines 210-214: the result for a direct URL after
\* unrestrictLink returned (link, err).
directResult(rawURL, link, err) ==
    IF err # NoErr THEN Result(rawURL, NoErr) ELSE Result(link, NoErr)

\* magnetResult handing resolveMagnet's error to the caller.
magnetResult_Surface(magnet, link, err) == [url |-> link, err |-> err]

\* ResolvePlayableURL, lines 230-235: the result after resolveMagnet
\* returned (link, err).
magnetResult(magnet, link, err) ==
    IF err # NoErr THEN Result(magnet, NoErr) ELSE Result(link, NoErr)

\* resolveBranch without the test for an empty magnet.
resolveBranch_NoEmptyCheck(stream, unlock) ==
    IF IsDirectURL(stream.URL)
    THEN (IF ~unlock THEN "direct_plain" ELSE "direct_unrestrict")
    ELSE IF ~unlock THEN "magnet_plain"
    ELSE "addMagnet"

\* ResolvePlayableURL, lines 205-228: the path taken before any request.
resolveBranch(stream, unlock) ==
    IF IsDirectURL(stream.URL)
    THEN (IF ~unlock THEN "direct_plain" ELSE "direct_unrestrict")
    ELSE IF magnetOf(stream) = << >> THEN "no_source"
    ELSE IF ~unlock THEN "magnet_plain"
    ELSE "addMagnet"

\* The ctx.Done() case answering the loop's timeout error.
selectCtxDone_AsTimeout == "torrent metadata did not become available"

\* The select statement of both polling loops: the error returned when the
\* ctx.Done() case is taken.
selectCtxDone == ErrCancelled

\* The attempt limits of waitForTorrentInfo and waitForReadyLinks.
MetaAttempts == 8

LinkAttempts == 30

\* The counter of waitForReadyLinks starting where waitForTorrentInfo's
\* counter stood.
linksLoopStart_Carry(i) == i

\* waitForReadyLinks, line 403: its counter starts at 0 whatever the
\* counter i of waitForTorrentInfo was.
linksLoopStart(i) == 0

\* The loop test with twice the number of attempts.
loopContinues_Double(i, limit) == i + 1 < limit + limit

\* The loop test that gives up one attempt early.
loopContinues_OneLess(i, limit) == i + 2 < limit

\* The loop going on while i < limit, one attempt too many.
loopContinues_OneMore(i, limit) == i < limit

\* waitForTorrentInfo / waitForReadyLinks after the timer case of attempt i
\* (0-based): the loop goes on while i + 1 < limit.
loopContinues(i, limit) == i + 1 < limit

(***************************************************************************)
(* Inputs.                                                                 *)
(***************************************************************************)
\* Stream.URL values: empty, http in both cases, magnet in both cases, and
\* a URL that is neither.
U_empty == << >>

U_http == << "h", "t", "t", "p", ":", "/", "/", "h" >>

U_HTTPS == << "H", "T", "T", "P", "S", ":", "/", "/", "H" >>

U_magnet == << "m", "a", "g", "n", "e", "t", ":", "?", "x" >>

U_Magnet == << "M", "a", "g", "n", "e", "T", ":", "?", "X" >>

U_ftp == << "f", "t", "p", ":", "/", "/", "h" >>

URLs == {U_empty, U_http, U_HTTPS, U_magnet, U_Magnet, U_ftp}

InfoHashes == {<< >>, << "A", "b", "9" >>}

Src_tracker == << "t", "r", "a", "c", "k", "e", "r", ":", "u", "d", "p", ":", "/", "/", "T" >>

Src_dht == << "d", "h", "t", ":", "x" >>

\* Every URL and info-hash, without a file index and sources or with both.
Streams ==
    {[URL |-> u, InfoHash |-> h, FileIdx |-> x[1], Sources |-> x[2]] :
        u \in URLs, h \in InfoHashes,
        x \in {<< NilIdx, << >> >>, << Ptr(0), << Src_tracker, Src_dht, Src_tracker >> >>}}

NoStream == [URL |-> << >>, InfoHash |-> << >>, FileIdx |-> NilIdx, Sources |-> << >>]

\* The REALDEBRID token handed to NewClient: unset, white space only, set.
Tokens == {<< >>, << " ", "\f" >>, << " ", "t", "k" >>}

\* File paths: a non-video file, video files in both cases, and a file whose
\* name only contains a video extension.
P_txt == << "a", ".", "t", "x", "t" >>

P_MKV == << "b", ".", "M", "k", "V" >>

P_mp4 == << "c", ".", "m", "p", "4" >>

P_nfo == << "t", "s", ".", "m", "k", "v", ".", "n", "f", "o" >>

File(id, path, bytes) == [ID |-> id, Path |-> path, Bytes |-> bytes]

\* Manifests the service reports in the pipeline: the three-file example of
\* the specification, a single non-video file, and a file whose id is 0.
M_three == << File(1, P_txt, 999999), File(2, P_MKV, 500), File(3, P_mp4, 700) >>

M_txt == << File(7, P_txt, 10) >>

M_zero == << File(0, P_mp4, 500) >>

ServiceManifests == {<< >>, M_three, M_txt, M_zero}

L_one == << "l", "1" >>

L_two == << "l", "2" >>

ServiceLinks == {<< >>, << L_two, L_one >>}

T_one == << "T", "1" >>

D_one == << "h", "t", "t", "p", "s", ":", "/", "/", "d" >>

(***************************************************************************)
(* State.                                                                  *)
(***************************************************************************)
VARIABLES
    token,          \* realDebrid.token of the client
    stream,         \* the Stream handed to openStreamCmd
    pc,             \* where the open-stream command stands
    ctxDone,        \* the command's context is done (deadline or cancel)
    timerFired,     \* the time.After channel of the pending select is ready
    magnet,         \* ResolvePlayableURL's magnet
    torrentID,      \* resolveMagnet's torrentID
    attempt,        \* the loop counter i of the polling loop in progress
    info,           \* resolveMagnet's info (from waitForTorrentInfo)
    selectedFileID, \* resolveMagnet's selectedFileID
    readyLinks,     \* resolveMagnet's ready.Links (from waitForReadyLinks)
    link,           \* the link returned by unrestrictLink / resolveMagnet
    rdErr,          \* the error returned by unrestrictLink / resolveMagnet
    failedAt,       \* the step at which rdErr was raised
    result,         \* what ResolvePlayableURL returned: (url, err)
    reqs,           \* the requests sent to the unlock service, in order
    played,         \* the URLs handed to player.OpenIINA, in order
    msg,            \* the err of the streamOpenedMsg
    lastKind,       \* the kind of the response to the last request
    pickFiles,      \* pickFileID applied alone: its manifest,
    pickIdx,        \* its fileIdx,
    pickOut,        \* its result,
    pickPc,         \* and whether it has been applied
    mgStream,       \* buildMagnet applied alone: its stream,
    mgOut,          \* its result,
    mgPc,           \* and whether it has been applied
    calls,          \* two commands on one client: the locals of each call,
    svc,            \* the torrents the unlock service holds, by handle,
    world,          \* how the service behaves for the torrent of a magnet,
    log,            \* and the requests and responses of each call, in order
    clIn,           \* a client function applied alone: its call and response,
    clOut,          \* what it returned and did,
    clPc,           \* and whether it has been applied
    srIn,           \* Search: its query and what the two catalogs answer,
    srPc,           \* the positions of Search and of its two goroutines,
    srMem,          \* the locals movies, shows, errA, errB and wg,
    srOut,          \* what Search returned,
    srLog,          \* and the requests sent and the accesses to the locals
    ui,             \* the Model of the terminal interface,
    uiPending,      \* the commands it has issued that have not delivered,
    uiEv            \* and the message or event it has handled last

pipeVars == << token, stream, pc, ctxDone, timerFired, magnet, torrentID, attempt,
               info, selectedFileID, readyLinks, link, rdErr, failedAt, result, reqs,
               played, msg, lastKind >>

pickVars == << pickFiles, pickIdx, pickOut, pickPc >>

magVars == << mgStream, mgOut, mgPc >>

\* The variables outside the open-stream command.
twoVars == << calls, svc, world, log >>

clVars == << clIn, clOut, clPc >>

\* The variables of the functions applied alone that were added last.
srVars == << srIn, srPc, srMem, srOut, srLog >>

uiVars == << ui, uiPending, uiEv >>

laterVars == << clVars, srVars, uiVars >>

otherVars == << pickVars, magVars, twoVars, laterVars >>

vars == << pipeVars, otherVars >>

NoInfo == [Files |-> << >>, Links |-> << >>]

Req(op, arg, files) == [op |-> op, arg |-> arg, files |-> files]

\* Responses for a client whose requests do not carry the context.
Responses_IgnoreCtx(payloads) ==
    {[kind |-> k, id |-> << >>, files |-> << >>, links |-> << >>, download |-> << >>] :
        k \in {"transport", "status", "decode"}} \cup payloads

\* The responses the service can give to a request made now.  A request made
\* with a context that is already done fails in http.Client.Do.
Responses(payloads) ==
    IF ctxDone THEN {Resp("transport", << >>, << >>, << >>, << >>)}
    ELSE {Resp("transport", << >>, << >>, << >>, << >>),
          Resp("status", << >>, << >>, << >>, << >>),
          Resp("decode", << >>, << >>, << >>, << >>)} \cup payloads

AddMagnetResponses ==
    Responses({Resp("ok", id, << >>, << >>, << >>) : id \in {<< >>, T_one}})

InfoResponses ==
    Responses({Resp("ok", << >>, f, l, << >>) : f \in ServiceManifests, l \in ServiceLinks})

\* postForm with out == nil never decodes the body.
SelectResponses ==
    {r \in Responses({Resp("ok", << >>, << >>, << >>, << >>)}) : r.kind # "decode"}

UnrestrictResponses ==
    Responses({Resp("ok", << >>, << >>, << >>, d) : d \in {<< >>, D_one}})

\* The state of the command before openStreamCmd runs, for a client built by
\* NewClient(rdToken), which stores the trimmed token.
PipeInit(rdToken) ==
    /\ token = TrimSpace(rdToken)
    /\ stream = NoStream
    /\ pc = "idle"
    /\ ctxDone = FALSE
    /\ timerFired = FALSE
    /\ magnet = << >>
    /\ torrentID = << >>
    /\ attempt = 0
    /\ info = NoInfo
    /\ selectedFileID = 0
    /\ readyLinks = << >>
    /\ link = << >>
    /\ rdErr = NoErr
    /\ failedAt = "none"
    /\ result = Result(<< >>, NoErr)
    /\ reqs = << >>
    /\ played = << >>
    /\ msg = NoErr
    /\ lastKind = "none"

PickOff ==
    /\ pickFiles = << >>
    /\ pickIdx = NilIdx
    /\ pickOut = 0
    /\ pickPc = "off"

MagOff ==
    /\ mgStream = NoStream
    /\ mgOut = << >>
    /\ mgPc = "off"

ClientOff ==
    /\ clIn = << >>
    /\ clOut = << >>
    /\ clPc = "off"

SearchOff ==
    /\ srIn = << >>
    /\ srPc = << >>
    /\ srMem = << >>
    /\ srOut = << >>
    /\ srLog = << >>

UIOff ==
    /\ ui = << >>
    /\ uiPending = << >>
    /\ uiEv = << >>

LaterOff == ClientOff /\ SearchOff /\ UIOff

TwoOff ==
    /\ calls = << >>
    /\ svc = << >>
    /\ world = << >>
    /\ log = << >>
    /\ LaterOff

Init ==
    /\ \E t \in Tokens : PipeInit(t)
    /\ PickOff
    /\ MagOff
    /\ TwoOff

(***************************************************************************)
(* openStreamCmd and ResolvePlayableURL.                                    *)
(***************************************************************************)
\* openStreamCmd is started for a stream of the list.
OpenStream ==
    /\ pc = "idle"
    /\ \E s \in Streams : stream' = s
    /\ pc' = "resolve"
    /\ UNCHANGED << token, ctxDone, timerFired, magnet, torrentID, attempt, info,
                    selectedFileID, readyLinks, link, rdErr, failedAt, result, reqs,
                    played, msg, lastKind, otherVars >>

Running == {"resolve", "direct_unrestrict", "addMagnet", "info_poll", "info_wait",
            "select", "links_poll", "links_wait", "unrestrict"}

\* The 120 s deadline of the command's context expires.
CtxExpire ==
    /\ pc \in Running
    /\ ~ctxDone
    /\ ctxDone' = TRUE
    /\ UNCHANGED << token, stream, pc, timerFired, magnet, torrentID, attempt, info,
                    selectedFileID, readyLinks, link, rdErr, failedAt, result, reqs,
                    played, msg, lastKind, otherVars >>

\* ResolvePlayableURL up to its first request or its return.
Resolve ==
    /\ pc = "resolve"
    /\ LET b == resolveBranch(stream, enabled(token))
           m == IF IsDirectURL(stream.URL) THEN << >> ELSE magnetOf(stream)
       IN  /\ magnet' = m
           /\ pc' = IF b \in {"direct_unrestrict", "addMagnet"} THEN b ELSE "returned"
           /\ result' = CASE b = "direct_plain" -> Result(stream.URL, NoErr)
                          [] b = "no_source"    -> Result(<< >>, ErrNoPlayable)
                          [] b = "magnet_plain" -> Result(m, NoErr)
                          [] OTHER              -> result
    /\ UNCHANGED << token, stream, ctxDone, timerFired, torrentID, attempt, info,
                    selectedFileID, readyLinks, link, rdErr, failedAt, reqs,
                    played, msg, lastKind, otherVars >>

\* ResolvePlayableURL for a direct URL: the single unrestrictLink request.
DirectUnrestrict ==
    /\ pc = "direct_unrestrict"
    /\ \E r \in UnrestrictResponses :
         LET u == unrestrictLink(r)
         IN  /\ reqs' = Append(reqs, Req("unrestrict", stream.URL, << >>))
             /\ lastKind' = r.kind
             /\ link' = u.val
             /\ rdErr' = u.err
             /\ failedAt' = IF u.err # NoErr THEN "direct_unrestrict" ELSE failedAt
             /\ result' = directResult(stream.URL, u.val, u.err)
    /\ pc' = "returned"
    /\ UNCHANGED << token, stream, ctxDone, timerFired, magnet, torrentID, attempt,
                    info, selectedFileID, readyLinks, played, msg, otherVars >>

\* resolveMagnet returns ("", err) and ResolvePlayableURL returns.
Failed(err) ==
    /\ rdErr' = err
    /\ failedAt' = pc
    /\ link' = << >>
    /\ result' = magnetResult(magnet, << >>, err)
    /\ pc' = "returned"

(***************************************************************************)
(* realDebrid.resolveMagnet, one action per request or wait.               *)
(***************************************************************************)
\* addMagnet: the register request.
AddMagnet ==
    /\ pc = "addMagnet"
    /\ \E r \in AddMagnetResponses :
         LET a == addMagnet(r)
         IN  /\ reqs' = Append(reqs, Req("addMagnet", magnet, << >>))
             /\ lastKind' = r.kind
             /\ IF a.err # NoErr
                THEN /\ Failed(a.err)
                     /\ UNCHANGED << torrentID, attempt >>
                ELSE /\ torrentID' = a.val
                     /\ attempt' = 0
                     /\ pc' = "info_poll"
                     /\ UNCHANGED << rdErr, failedAt, link, result >>
    /\ UNCHANGED << token, stream, ctxDone, timerFired, magnet, info, selectedFileID,
                    readyLinks, played, msg, otherVars >>

\* waitForTorrentInfo: one poll of the loop; when the manifest is there,
\* resolveMagnet goes on to pickFileID.
InfoPoll ==
    /\ pc = "info_poll"
    /\ \E r \in InfoResponses :
         LET t == torrentInfo(r)
             got == t.err = NoErr /\ Len(t.val.Files) > 0
             id == IF got THEN pickFileID(t.val.Files, stream.FileIdx) ELSE selectedFileID
             err == IF t.err # NoErr THEN t.err
                    ELSE IF got /\ pickFailed(id) THEN ErrPick
                    ELSE NoErr
         IN  /\ reqs' = Append(reqs, Req("info", torrentID, << >>))
             /\ lastKind' = r.kind
             /\ info' = IF got THEN t.val ELSE info
             /\ selectedFileID' = id
             /\ IF err # NoErr
                THEN Failed(err)
                ELSE /\ pc' = IF got THEN "select" ELSE "info_wait"
                     /\ UNCHANGED << rdErr, failedAt, link, result >>
    /\ timerFired' = FALSE
    /\ UNCHANGED << token, stream, ctxDone, magnet, torrentID, attempt, readyLinks,
                    played, msg, otherVars >>

\* time.After of the pending select becomes ready.
TimerFire ==
    /\ pc \in {"info_wait", "links_wait"}
    /\ ~timerFired
    /\ ~ctxDone
    /\ timerFired' = TRUE
    /\ UNCHANGED << token, stream, pc, ctxDone, magnet, torrentID, attempt, info,
                    selectedFileID, readyLinks, link, rdErr, failedAt, result, reqs,
                    played, msg, lastKind, otherVars >>

\* waitForTorrentInfo: the select takes the ctx.Done() case.
InfoWaitDone ==
    /\ pc = "info_wait"
    /\ ctxDone
    /\ Failed(selectCtxDone)
    /\ UNCHANGED << token, stream, ctxDone, timerFired, magnet, torrentID, attempt,
                    info, selectedFileID, readyLinks, reqs, played, msg, lastKind,
                    otherVars >>

\* waitForTorrentInfo: the select takes the timer case; i++ and the loop test.
InfoWaitTimer ==
    /\ pc = "info_wait"
    /\ timerFired
    /\ attempt' = attempt + 1
    /\ IF loopContinues(attempt, MetaAttempts)
       THEN /\ pc' = "info_poll"
            /\ UNCHANGED << rdErr, failedAt, link, result >>
       ELSE Failed(ErrMetadataTimeout)
    /\ UNCHANGED << token, stream, ctxDone, timerFired, magnet, torrentID, info,
                    selectedFileID, readyLinks, reqs, played, msg, lastKind,
                    otherVars >>

\* selectFiles with the one picked file id.
SelectFiles ==
    /\ pc = "select"
    /\ \E r \in SelectResponses :
         LET fileIDs == selectedIDs(selectedFileID)
             e == selectFiles(fileIDs, r)
             sent == Len(fileIDs) # 0
         IN  /\ reqs' = IF sent THEN Append(reqs, Req("select", torrentID, fileIDs)) ELSE reqs
             /\ lastKind' = IF sent THEN r.kind ELSE lastKind
             /\ IF e # NoErr
                THEN /\ Failed(e)
                     /\ UNCHANGED attempt
                ELSE /\ attempt' = linksLoopStart(attempt)
                     /\ pc' = "links_poll"
                     /\ UNCHANGED << rdErr, failedAt, link, result >>
    /\ UNCHANGED << token, stream, ctxDone, timerFired, magnet, torrentID, info,
                    selectedFileID, readyLinks, played, msg, otherVars >>

\* waitForReadyLinks: one poll of the loop; resolveMagnet then checks that
\* ready.Links is not empty.
LinksPoll ==
    /\ pc = "links_poll"
    /\ \E r \in InfoResponses :
         LET t == torrentInfo(r)
             got == t.err = NoErr /\ Len(t.val.Links) > 0
             err == IF t.err # NoErr THEN t.err
                    ELSE IF got /\ Len(t.val.Links) = 0 THEN ErrNoLinks
                    ELSE NoErr
         IN  /\ reqs' = Append(reqs, Req("info", torrentID, << >>))
             /\ lastKind' = r.kind
             /\ readyLinks' = IF got THEN t.val.Links ELSE readyLinks
             /\ IF err # NoErr
                THEN Failed(err)
                ELSE /\ pc' = IF got THEN "unrestrict" ELSE "links_wait"
                     /\ UNCHANGED << rdErr, failedAt, link, result >>
    /\ timerFired' = FALSE
    /\ UNCHANGED << token, stream, ctxDone, magnet, torrentID, attempt, info,
                    selectedFileID, played, msg, otherVars >>

\* waitForReadyLinks: the select takes the ctx.Done() case.
LinksWaitDone ==
    /\ pc = "links_wait"
    /\ ctxDone
    /\ Failed(selectCtxDone)
    /\ UNCHANGED << token, stream, ctxDone, timerFired, magnet, torrentID, attempt,
                    info, selectedFileID, readyLinks, reqs, played, msg, lastKind,
                    otherVars >>

\* waitForReadyLinks: the select takes the timer case; i++ and the loop test.
LinksWaitTimer ==
    /\ pc = "links_wait"
    /\ timerFired
    /\ attempt' = attempt + 1
    /\ IF loopContinues(attempt, LinkAttempts)
       THEN /\ pc' = "links_poll"
            /\ UNCHANGED << rdErr, failedAt, link, result >>
       ELSE Failed(ErrLinksTimeout)
    /\ UNCHANGED << token, stream, ctxDone, timerFired, magnet, torrentID, info,
                    selectedFileID, readyLinks, reqs, played, msg, lastKind,
                    otherVars >>

\* unrestrictLink(ready.Links[0]); resolveMagnet and ResolvePlayableURL return.
Unrestrict ==
    /\ pc = "unrestrict"
    /\ \E r \in UnrestrictResponses :
         LET u == unrestrictLink(r)
         IN  /\ reqs' = Append(reqs, Req("unrestrict", readyLinks[1], << >>))
             /\ lastKind' = r.kind
             /\ link' = u.val
             /\ rdErr' = u.err
             /\ failedAt' = IF u.err # NoErr THEN "unrestrict" ELSE failedAt
             /\ result' = magnetResult(magnet, u.val, u.err)
    /\ pc' = "returned"
    /\ UNCHANGED << token, stream, ctxDone, timerFired, magnet, torrentID, attempt,
                    info, selectedFileID, readyLinks, played, msg, otherVars >>

\* openStreamCmd handing the URL to the player whatever the error of
\* ResolvePlayableURL.
OpenPlayer_Always ==
    /\ pc = "returned"
    /\ played' = Append(played, result.url)
    /\ msg' = result.err
    /\ pc' = "done"
    /\ UNCHANGED << token, stream, ctxDone, timerFired, magnet, torrentID, attempt,
                    info, selectedFileID, readyLinks, link, rdErr, failedAt, result, reqs,
                    lastKind, otherVars >>

\* openStreamCmd after ResolvePlayableURL returned: the player is opened
\* only when err is nil.
OpenPlayer ==
    /\ pc = "returned"
    /\ IF result.err # NoErr
       THEN /\ msg' = result.err
            /\ UNCHANGED played
       ELSE /\ played' = Append(played, result.url)
            /\ \E e \in {NoErr, ErrPlayer} : msg' = e
    /\ pc' = "done"
    /\ UNCHANGED << token, stream, ctxDone, timerFired, magnet, torrentID, attempt,
                    info, selectedFileID, readyLinks, link, rdErr, failedAt, result, reqs,
                    lastKind, otherVars >>

Next ==
    \/ OpenStream
    \/ CtxExpire
    \/ Resolve
    \/ DirectUnrestrict
    \/ AddMagnet
    \/ InfoPoll
    \/ TimerFire
    \/ InfoWaitDone
    \/ InfoWaitTimer
    \/ SelectFiles
    \/ LinksPoll
    \/ LinksWaitDone
    \/ LinksWaitTimer
    \/ Unrestrict
    \/ OpenPlayer

Spec == Init /\ [][Next]_vars

(***************************************************************************)
(* pickFileID applied alone to every manifest of up to MaxFiles files.     *)
(***************************************************************************)
MaxFiles == 3

\* The (path, size) of a file: a large non-video file, video files of size
\* 0, 500 and 700, a non-video file named after a video, and a video file
\* of size -1, which no file of the service has.
PickKinds == {<< P_txt, 900 >>, << P_MKV, 0 >>, << P_MKV, 500 >>, << P_mp4, 700 >>,
              << P_nfo, 700 >>, << P_mp4, -1 >>}

\* The ids of the n files of a manifest: 1..n as the service numbers them,
\* n..1, and n-1..0, where the last file has the id 0 that a response
\* without an id decodes to.
IdSchemes == {"up", "down", "downToZero"}

idOf(scheme, k, n) ==
    CASE scheme = "up"   -> k
      [] scheme = "down" -> n - k + 1
      [] OTHER           -> n - k

ManifestsOfLen(n) ==
    {[k \in 1..n |-> File(idOf(scheme, k, n), pb[k][1], pb[k][2])] :
        scheme \in IdSchemes, pb \in [1..n -> PickKinds]}

Manifests == UNION {ManifestsOfLen(n) : n \in 0..MaxFiles}

\* fileIdx: nil, negative, every position, and one past the largest manifest.
PickIdxs == {NilIdx} \cup {Ptr(n) : n \in -1..MaxFiles}

InitPick ==
    /\ PipeInit(<< >>)
    /\ pickFiles \in Manifests
    /\ pickIdx \in PickIdxs
    /\ pickOut = 0
    /\ pickPc = "ready"
    /\ MagOff
    /\ TwoOff

PickFile ==
    /\ pickPc = "ready"
    /\ pickOut' = pickFileID(pickFiles, pickIdx)
    /\ pickPc' = "done"
    /\ UNCHANGED << pickFiles, pickIdx, pipeVars, magVars, twoVars, laterVars >>

NextPick == PickFile

SpecPick == InitPick /\ [][NextPick]_vars

(***************************************************************************)
(* buildMagnet applied alone to every source list of up to MaxSources      *)
(* entries.                                                                *)
(***************************************************************************)
MaxSources == 3

H_ABCDEF == << "A", "B", "C", "D", "E", "F" >>

MagnetHashes == InfoHashes \cup {H_ABCDEF}

\* Source entries: trackers B, A and a, tracker B with blanks around it and
\* with a form feed and a no-break space around it, a tracker entry without
\* a value, an entry whose prefix is not in lower case, trackers with
\* characters that QueryEscape encodes, and an entry that is no tracker.
Src_B == << "t", "r", "a", "c", "k", "e", "r", ":", "B" >>

Src_A == << "t", "r", "a", "c", "k", "e", "r", ":", "A" >>

Src_a == << "t", "r", "a", "c", "k", "e", "r", ":", "a" >>

Src_Bsp == << "t", "r", "a", "c", "k", "e", "r", ":", " ", "B", " " >>

Src_Bff == << "t", "r", "a", "c", "k", "e", "r", ":", "\f", "B", "NBSP" >>

Src_plus == << "t", "r", "a", "c", "k", "e", "r", ":", "a", "+", "%" >>

Src_none == << "t", "r", "a", "c", "k", "e", "r", ":" >>

Src_Tracker == << "T", "r", "a", "c", "k", "e", "r", ":", "B" >>

SourceKinds == {Src_B, Src_A, Src_a, Src_Bsp, Src_Bff, Src_plus, Src_none, Src_Tracker,
                Src_tracker, Src_dht}

SourceLists == UNION {[1..n -> SourceKinds] : n \in 0..MaxSources}

InitMagnet ==
    /\ PipeInit(<< >>)
    /\ PickOff
    /\ \E h \in MagnetHashes, l \in SourceLists :
         mgStream = [URL |-> << >>, InfoHash |-> h, FileIdx |-> NilIdx, Sources |-> l]
    /\ mgOut = << >>
    /\ mgPc = "ready"
    /\ TwoOff

BuildMagnet ==
    /\ mgPc = "ready"
    /\ mgOut' = buildMagnet(mgStream)
    /\ mgPc' = "done"
    /\ UNCHANGED << mgStream, pipeVars, pickVars, twoVars, laterVars >>

NextMagnet == BuildMagnet

SpecMagnet == InitMagnet /\ [][NextMagnet]_vars

(***************************************************************************)
(* Two open-stream commands running on one Client.  Each command runs      *)
(* resolveMagnet with its own context and locals; the unlock service keeps *)
(* one torrent per handle it has issued.  One action per request of a      *)
(* call, one per outcome of the select between two polls, and one for the  *)
(* end of a call's context.                                                *)
(***************************************************************************)
Callers == {1, 2}

T_two == << "T", "2" >>

\* The handles the service issues, in the order of the register requests.
HandleIds == << T_one, T_two >>

handleIndex(id) ==
    IF \E k \in 1..Len(HandleIds) : HandleIds[k] = id
    THEN CHOOSE k \in 1..Len(HandleIds) : HandleIds[k] = id
    ELSE 0

\* The torrent id used by call c, taken from the handle registered last by
\* any call, as if it were kept in the shared realDebrid.
ownID_LastRegistered(cs, c) ==
    LET ds == {d \in DOMAIN cs : cs[d].torrentID # << >>}
    IN  IF ds = {} THEN << >>
        ELSE cs[CHOOSE d \in ds : \A e \in ds :
                   handleIndex(cs[e].torrentID) <= handleIndex(cs[d].torrentID)].torrentID

\* resolveMagnet's local torrentID of call c.
ownID(cs, c) == cs[c].torrentID

\* The two descriptors: a magnet URI, and an info-hash with trackers and a
\* file index.
TwoStreams ==
    {st \in Streams : \/ st.URL = U_magnet /\ st.InfoHash = << >> /\ st.FileIdx = NilIdx
                      \/ st.URL = << >> /\ st.InfoHash # << >> /\ st.FileIdx # NilIdx}

TwoMagnets == {magnetOf(st) : st \in TwoStreams}

\* The behaviour of the service for one torrent: the outcome of the register
\* request, the poll from which the manifest is reported, the poll of the
\* metadata phase that fails (0: none), the outcome of the select request,
\* the poll after select from which the links are reported, and the links
\* reported before select (none for most torrents).
Script(reg, filesAt, files, infoErrAt, sel, linksAt, links, early) ==
    [reg |-> reg, filesAt |-> filesAt, files |-> files, infoErrAt |-> infoErrAt,
     sel |-> sel, linksAt |-> linksAt, links |-> links, early |-> early]

\* The torrent that is ready at once.
PlainScript == Script("ok", 1, M_txt, 0, "ok", 1, << L_one >>, << >>)

Scripts ==
    {Script("ok", 3, M_three, 0, "ok", 2, << L_two, L_one >>, << >>),
     PlainScript,
     Script("status", 1, M_txt, 0, "ok", 1, << L_one >>, << >>),
     Script("ok", MetaAttempts + 1, M_txt, 0, "ok", 1, << L_one >>, << >>),
     Script("ok", 3, M_three, 2, "ok", 1, << L_one >>, << >>),
     Script("ok", 1, M_zero, 0, "ok", 1, << L_one >>, << >>),
     Script("ok", 2, M_three, 0, "transport", 1, << L_one >>, << >>),
     Script("ok", 1, M_three, 0, "ok", LinkAttempts + 1, << L_two >>, << >>),
     Script("ok", 3, M_three, 0, "ok", 2, << L_two, L_one >>, << L_one >>)}

\* Every script for one magnet while the other magnet's torrent is ready at
\* once; two calls for the same magnet meet every script twice.
Worlds == {w \in [TwoMagnets -> Scripts] : \E m \in TwoMagnets : w[m] = PlainScript}

NoResp(kind) == Resp(kind, << >>, << >>, << >>, << >>)

\* The response of the service to a request, given the torrents it holds.
svcResp(w, service, req) ==
    LET k == handleIndex(req.arg)
        known == k \in 1..Len(service)
    IN  CASE req.op = "addMagnet" ->
               IF w[req.arg].reg = "ok"
               THEN Resp("ok", HandleIds[Len(service) + 1], << >>, << >>, << >>)
               ELSE NoResp(w[req.arg].reg)
          [] req.op = "info" /\ known ->
               LET t == service[k]
                   sc == w[t.magnet]
                   n == t.polls + 1
               IN  IF ~t.selected /\ sc.infoErrAt = n THEN NoResp("status")
                   ELSE Resp("ok", << >>,
                             IF t.selected \/ n >= sc.filesAt THEN sc.files ELSE << >>,
                             IF ~t.selected THEN sc.early
                             ELSE IF n >= sc.linksAt THEN sc.links ELSE << >>,
                             << >>)
          [] req.op = "select" /\ known -> NoResp(w[service[k].magnet].sel)
          [] req.op = "unrestrict" -> Resp("ok", << >>, << >>, << >>, << "d" >> \o req.arg)
          [] OTHER -> NoResp("status")

\* The torrents of the service after the request.
svcStep(service, req, resp) ==
    LET k == handleIndex(req.arg)
    IN  CASE req.op = "addMagnet" /\ resp.kind = "ok" ->
               Append(service, [magnet |-> req.arg, polls |-> 0, selected |-> FALSE])
          [] req.op = "info" /\ k \in 1..Len(service) ->
               [service EXCEPT ![k].polls = @ + 1]
          [] req.op = "select" /\ k \in 1..Len(service) /\ resp.kind = "ok" ->
               [service EXCEPT ![k].selected = TRUE, ![k].polls = 0]
          [] OTHER -> service

\* The locals of a call that has not started.
IdleCall ==
    [stream |-> NoStream, pc |-> "idle", magnet |-> << >>, torrentID |-> << >>,
     attempt |-> 0, info |-> << >>, selectedFileID |-> 0, readyLinks |-> << >>,
     ctxDone |-> FALSE, timerFired |-> FALSE, result |-> Result(<< >>, NoErr)]

\* ResolvePlayableURL from its entry to the call of resolveMagnet.
startCall(st) ==
    [IdleCall EXCEPT !.stream = st, !.magnet = magnetOf(st), !.pc = "addMagnet"]

\* callReq with a cache of handles by magnet: a call whose magnet another
\* call has registered polls that handle instead of registering.
callReq_Cached(cs, c) ==
    LET ds == {d \in DOMAIN cs : d # c /\ cs[d].magnet = cs[c].magnet
                                       /\ cs[d].torrentID # << >>}
    IN  CASE cs[c].pc = "addMagnet" /\ ds # {} ->
               Req("info", cs[CHOOSE d \in ds : TRUE].torrentID, << >>)
          [] cs[c].pc = "addMagnet"  -> Req("addMagnet", cs[c].magnet, << >>)
          [] cs[c].pc = "info_poll"  -> Req("info", ownID(cs, c), << >>)
          [] cs[c].pc = "select"     -> Req("select", ownID(cs, c), selectedIDs(cs[c].selectedFileID))
          [] cs[c].pc = "links_poll" -> Req("info", ownID(cs, c), << >>)
          [] OTHER                   -> Req("unrestrict", cs[c].readyLinks[1], << >>)

\* callReq handing the last of the ready links to unrestrictLink.
callReq_LastLink(cs, c) ==
    CASE cs[c].pc = "addMagnet"  -> Req("addMagnet", cs[c].magnet, << >>)
      [] cs[c].pc = "info_poll"  -> Req("info", cs[c].torrentID, << >>)
      [] cs[c].pc = "select"     -> Req("select", cs[c].torrentID, << cs[c].selectedFileID >>)
      [] cs[c].pc = "links_poll" -> Req("info", cs[c].torrentID, << >>)
      [] OTHER -> Req("unrestrict", cs[c].readyLinks[Len(cs[c].readyLinks)], << >>)

\* The request that call c sends at its position.
callReq(cs, c) ==
    CASE cs[c].pc = "addMagnet"  -> Req("addMagnet", cs[c].magnet, << >>)
      [] cs[c].pc = "info_poll"  -> Req("info", ownID(cs, c), << >>)
      [] cs[c].pc = "select"     -> Req("select", ownID(cs, c), selectedIDs(cs[c].selectedFileID))
      [] cs[c].pc = "links_poll" -> Req("info", ownID(cs, c), << >>)
      [] OTHER                   -> Req("unrestrict", cs[c].readyLinks[1], << >>)

\* resolveMagnet returns ("", err): ResolvePlayableURL returns.
callFailed(call, err) ==
    [call EXCEPT !.pc = "returned", !.result = magnetResult(call.magnet, << >>, err)]

\* resolveMagnet of one call from the response to its request up to its
\* next request, the select of its polling loop, or its return.
callStep(call, resp) ==
    CASE call.pc = "addMagnet" ->
           LET a == addMagnet(resp)
           IN  IF a.err # NoErr THEN callFailed(call, a.err)
               ELSE [call EXCEPT !.torrentID = a.val, !.attempt = 0, !.pc = "info_poll"]
      [] call.pc = "info_poll" ->
           LET t == torrentInfo(resp)
               id == pickFileID(t.val.Files, call.stream.FileIdx)
           IN  IF t.err # NoErr THEN callFailed(call, t.err)
               ELSE IF Len(t.val.Files) > 0
                    THEN (IF pickFailed(id) THEN callFailed([call EXCEPT !.info = t.val.Files], ErrPick)
                          ELSE [call EXCEPT !.info = t.val.Files, !.selectedFileID = id,
                                            !.pc = "select"])
               ELSE [call EXCEPT !.pc = "info_wait", !.timerFired = FALSE]
      [] call.pc = "select" ->
           LET e == selectFiles(selectedIDs(call.selectedFileID), resp)
           IN  IF e # NoErr THEN callFailed(call, e)
               ELSE [call EXCEPT !.attempt = linksLoopStart(@), !.pc = "links_poll"]
      [] call.pc = "links_poll" ->
           LET t == torrentInfo(resp)
           IN  IF t.err # NoErr THEN callFailed(call, t.err)
               ELSE IF Len(t.val.Links) > 0
                    THEN [call EXCEPT !.readyLinks = t.val.Links, !.pc = "unrestrict"]
               ELSE [call EXCEPT !.pc = "links_wait", !.timerFired = FALSE]
      [] OTHER ->
           LET u == unrestrictLink(resp)
           IN  [call EXCEPT !.pc = "returned",
                            !.result = magnetResult(call.magnet, u.val, u.err)]

\* The select of waitForTorrentInfo and waitForReadyLinks: the ctx.Done()
\* case returns ctx.Err(); the timer case is followed by i++ and the loop
\* test, after which the loop polls again or returns its timeout error.
callWait(call, done) ==
    LET meta == call.pc = "info_wait"
        next == [call EXCEPT !.attempt = @ + 1, !.timerFired = FALSE]
    IN  IF done THEN callFailed(call, selectCtxDone)
        ELSE IF loopContinues(call.attempt, IF meta THEN MetaAttempts ELSE LinkAttempts)
             THEN [next EXCEPT !.pc = IF meta THEN "info_poll" ELSE "links_poll"]
        ELSE callFailed(next, IF meta THEN ErrMetadataTimeout ELSE ErrLinksTimeout)

RequestPcs == {"addMagnet", "info_poll", "select", "links_poll", "unrestrict"}

WaitPcs == {"info_wait", "links_wait"}

InitTwo ==
    /\ PipeInit(<< " ", "t", "k" >>)
    /\ PickOff
    /\ MagOff
    /\ calls = [c \in Callers |-> IdleCall]
    /\ svc = << >>
    /\ world \in Worlds
    /\ log = [c \in Callers |-> << >>]
    /\ LaterOff

twoFrame == UNCHANGED << world, pipeVars, pickVars, magVars, laterVars >>

\* openStreamCmd of call c is started for a stream that leads to
\* resolveMagnet.
TwoStart(c) ==
    /\ calls[c].pc = "idle"
    /\ \E st \in TwoStreams :
         /\ resolveBranch(st, enabled(token)) = "addMagnet"
         /\ calls' = [calls EXCEPT ![c] = startCall(st)]
    /\ UNCHANGED << svc, log >>
    /\ twoFrame

\* The 120 s deadline of the context of call c expires.
TwoCtxExpire(c) ==
    /\ calls[c].pc \in RequestPcs \cup WaitPcs
    /\ ~calls[c].ctxDone
    /\ calls' = [calls EXCEPT ![c].ctxDone = TRUE]
    /\ UNCHANGED << svc, log >>
    /\ twoFrame

\* Call c makes the request of its position (addMagnet, a poll of
\* waitForTorrentInfo, selectFiles, a poll of waitForReadyLinks or
\* unrestrictLink) and goes on with the response.  With a context that is
\* already done http.Client.Do fails and the service sees no request.
TwoRequest(c) ==
    /\ calls[c].pc \in RequestPcs
    /\ LET req == callReq(calls, c)
           sent == ~calls[c].ctxDone
           resp == IF sent THEN svcResp(world, svc, req) ELSE NoResp("transport")
       IN  /\ calls' = [calls EXCEPT ![c] = callStep(calls[c], resp)]
           /\ svc' = IF sent THEN svcStep(svc, req, resp) ELSE svc
           /\ log' = [log EXCEPT ![c] = Append(@, [req |-> req, resp |-> resp])]
    /\ twoFrame

\* The context of call c ends while http.Client.Do waits for the response:
\* the service has handled the request, the call gets the context's error.
TwoRequestCut(c) ==
    /\ calls[c].pc \in RequestPcs
    /\ ~calls[c].ctxDone
    /\ LET req == callReq(calls, c)
           resp == NoResp("transport")
       IN  /\ calls' = [calls EXCEPT
                           ![c] = callStep([calls[c] EXCEPT !.ctxDone = TRUE], resp)]
           /\ svc' = svcStep(svc, req, svcResp(world, svc, req))
           /\ log' = [log EXCEPT ![c] = Append(@, [req |-> req, resp |-> resp])]
    /\ twoFrame

\* time.After of the pending select of call c becomes ready.
TwoTimerFire(c) ==
    /\ calls[c].pc \in WaitPcs
    /\ ~calls[c].timerFired
    /\ ~calls[c].ctxDone
    /\ calls' = [calls EXCEPT ![c].timerFired = TRUE]
    /\ UNCHANGED << svc, log >>
    /\ twoFrame

\* The select of call c takes the ctx.Done() case.
TwoWaitDone(c) ==
    /\ calls[c].pc \in WaitPcs
    /\ calls[c].ctxDone
    /\ calls' = [calls EXCEPT ![c] = callWait(calls[c], TRUE)]
    /\ UNCHANGED << svc, log >>
    /\ twoFrame

\* The select of call c takes the timer case.
TwoWaitTimer(c) ==
    /\ calls[c].pc \in WaitPcs
    /\ calls[c].timerFired
    /\ calls' = [calls EXCEPT ![c] = callWait(calls[c], FALSE)]
    /\ UNCHANGED << svc, log >>
    /\ twoFrame

NextTwo ==
    \E c \in Callers :
        \/ TwoStart(c)
        \/ TwoCtxExpire(c)
        \/ TwoRequest(c)
        \/ TwoRequestCut(c)
        \/ TwoTimerFire(c)
        \/ TwoWaitDone(c)
        \/ TwoWaitTimer(c)

SpecTwo == InitTwo /\ [][NextTwo]_vars

\* The result of a call running alone, with a context that does not end,
\* against a service that holds no torrent yet.
RECURSIVE runAlone(_, _, _)
runAlone(call, service, w) ==
    IF call.pc = "returned" THEN call.result
    ELSE IF call.pc \in WaitPcs THEN runAlone(callWait(call, FALSE), service, w)
    ELSE LET req == callReq(<< call >>, 1)
             resp == svcResp(w, service, req)
         IN  runAlone(callStep(call, resp), svcStep(service, req, resp), w)

(***************************************************************************)
(* Properties of ResolvePlayableURL, checked under Spec.                   *)
(***************************************************************************)
\* ResolvePlayableURL has returned.
Returned == pc \in {"returned", "done"}

\* Unlock is enabled: a non-blank token was configured.
UnlockEnabled == token # << >>

\* The descriptor's magnet string: the magnet URI of rawURL verbatim, or else
\* the magnet synthesized from infoHash.
MagnetString == magnetOf(stream)

\* The pipeline of resolveMagnet failed at some step.
PipelineFailed == rdErr # NoErr /\ failedAt \notin {"none", "direct_unrestrict"}

\* C1: with unlock enabled and a non-empty magnet string, whenever a step of
\* the pipeline fails, resolve returns exactly the magnet string with a nil
\* error; the step's error is not returned.
C1_FallbackToMagnet ==
    (/\ Returned
     /\ UnlockEnabled
     /\ ~IsDirectURL(stream.URL)
     /\ MagnetString # << >>
     /\ rdErr # NoErr)
    => result = Result(MagnetString, NoErr)

\* C1 witness: the link polling timed out after its 30 attempts for a
\* hash-only descriptor and the synthesized magnet was returned.
C1_Witness ==
    /\ pc = "returned"
    /\ rdErr = ErrLinksTimeout
    /\ stream.URL = U_empty
    /\ result = Result(buildMagnet(stream), NoErr)

\* C2: for a direct URL with unlock enabled, resolve sends exactly one
\* request, unrestrict(rawURL); when it fails resolve returns rawURL with a nil
\* error, and when it succeeds resolve returns the download URL.
C2_DirectOneUnrestrict ==
    (Returned /\ UnlockEnabled /\ IsDirectURL(stream.URL))
    => /\ reqs = << Req("unrestrict", stream.URL, << >>) >>
       /\ rdErr # NoErr => result = Result(stream.URL, NoErr)
       /\ rdErr = NoErr => (link = D_one /\ result = Result(D_one, NoErr))

\* C2 witness: the service answered 2xx without a download URL for an
\* upper-case HTTPS URL, and the URL came back unchanged.
C2_Witness ==
    /\ pc = "returned"
    /\ UnlockEnabled
    /\ stream.URL = U_HTTPS
    /\ rdErr = ErrEmptyDownload
    /\ result = Result(U_HTTPS, NoErr)

\* C3: with unlock disabled no request is ever sent to the unlock service; a
\* direct URL is returned unchanged and a magnet or hash-only descriptor
\* returns its magnet string unchanged.
C3_DisabledNoRequest ==
    ~UnlockEnabled
    => /\ reqs = << >>
       /\ (Returned /\ IsDirectURL(stream.URL)) => result = Result(stream.URL, NoErr)
       /\ (Returned /\ ~IsDirectURL(stream.URL) /\ MagnetString # << >>)
              => result = Result(MagnetString, NoErr)

\* C3 witness: a hash-only descriptor resolved with unlock disabled to its
\* synthesized magnet.
C3_Witness ==
    /\ pc = "returned"
    /\ ~UnlockEnabled
    /\ stream.URL = U_empty
    /\ stream.InfoHash # << >>
    /\ result = Result(buildMagnet(stream), NoErr)
    /\ reqs = << >>

\* C4: a descriptor that is not a direct URL, whose rawURL is no magnet URI
\* and whose infoHash is empty, fails with NoPlayableSource and an empty URL,
\* and no request is sent, with unlock enabled or not.
C4_NoPlayableSource ==
    (/\ Returned
     /\ ~IsDirectURL(stream.URL)
     /\ ~IsMagnetURI(stream.URL)
     /\ stream.InfoHash = << >>)
    => /\ result = Result(<< >>, ErrNoPlayable)
       /\ reqs = << >>

\* C4 witness: rawURL and infoHash both empty, unlock enabled.
C4_Witness ==
    /\ pc = "returned"
    /\ UnlockEnabled
    /\ stream.URL = U_empty
    /\ stream.InfoHash = << >>
    /\ result = Result(<< >>, ErrNoPlayable)

\* C5 as stated: resolve returns an error exactly when the descriptor has
\* neither a URL nor an info-hash, and that error is NoPlayableSource.
C5_ErrorIffNeitherUrlNorHash ==
    Returned
    => /\ result.err # NoErr <=> (stream.URL = << >> /\ stream.InfoHash = << >>)
       /\ result.err \in {NoErr, ErrNoPlayable}

\* C5 amended: resolve returns an error exactly when rawURL starts with
\* neither http nor magnet: (case-insensitive) and infoHash is empty, and that
\* error is NoPlayableSource.
C5_ErrorIffNoUsableUrlNorHash ==
    Returned
    => /\ result.err # NoErr <=> (/\ ~IsDirectURL(stream.URL)
                                  /\ ~IsMagnetURI(stream.URL)
                                  /\ stream.InfoHash = << >>)
       /\ result.err \in {NoErr, ErrNoPlayable}

\* C5 witness: a non-empty rawURL that is neither http nor magnet, with an
\* empty infoHash, failed with NoPlayableSource.
C5_Witness ==
    /\ pc = "returned"
    /\ stream.URL = U_ftp
    /\ stream.InfoHash = << >>
    /\ result.err = ErrNoPlayable

\* C6 as stated: when the pipeline is cancelled, what resolve reports to its
\* caller differs from what it reports when the pipeline fails with a remote
\* error or a polling timeout, which is the magnet string with a nil error.
C6_CancelReportedDistinctly ==
    (Returned /\ PipelineFailed /\ rdErr = ErrCancelled)
    => result # Result(MagnetString, NoErr)

\* C6 amended: the polling loops return the context's error only from the
\* ctx.Done() case of a wait, and the timeout errors only after the last
\* attempt, so the unlock client tells them apart; ResolvePlayableURL returns
\* the magnet string with a nil error for every one of them, and
\* openStreamCmd hands that magnet to the player.
C6_CancelSameOutcome ==
    (Returned /\ PipelineFailed)
    => /\ result = Result(MagnetString, NoErr)
       /\ pc = "done" => (played = << MagnetString >> /\ msg \in {NoErr, ErrPlayer})
       /\ rdErr = ErrCancelled => (ctxDone /\ failedAt \in {"info_wait", "links_wait"})
       /\ rdErr = ErrMetadataTimeout => (failedAt = "info_wait" /\ attempt = MetaAttempts)
       /\ rdErr = ErrLinksTimeout => (failedAt = "links_wait" /\ attempt = LinkAttempts)
       /\ (failedAt = "info_wait" /\ attempt < MetaAttempts) => rdErr = ErrCancelled
       /\ (failedAt = "links_wait" /\ attempt < LinkAttempts) => rdErr = ErrCancelled

\* C6 witness: the context was done during a wait of the link polling, and
\* the player was opened with the magnet.
C6_Witness ==
    /\ pc = "done"
    /\ rdErr = ErrCancelled
    /\ failedAt = "links_wait"
    /\ played = << MagnetString >>
    /\ msg = NoErr

(***************************************************************************)
(* Properties of pickFileID, checked under SpecPick.                       *)
(***************************************************************************)
PickDone == pickPc = "done"

\* The explicit index is set and is a position of the manifest.
PickValidIdx ==
    /\ pickIdx # NilIdx
    /\ pickIdx[1] >= 0
    /\ pickIdx[1] < Len(pickFiles)

\* The paths of the model that end, whatever the case, with a video
\* extension of the list: b.MkV and c.mp4, not a.txt nor ts.mkv.nfo.
VideoLike(path) == path \in {P_MKV, P_mp4}

VideoPositions == {k \in DOMAIN pickFiles : VideoLike(pickFiles[k].Path)}

\* A manifest of files as the service reports them: remote ids from 1 up,
\* sizes not negative.
WellFormed(files) ==
    \A k \in DOMAIN files : files[k].ID >= 1 /\ files[k].Bytes >= 0

\* The position of the largest video-like file, the earliest at a tie.
LargestVideo ==
    CHOOSE k \in VideoPositions :
        /\ \A j \in VideoPositions : pickFiles[j].Bytes <= pickFiles[k].Bytes
        /\ \A j \in VideoPositions : j < k => pickFiles[j].Bytes < pickFiles[k].Bytes

\* C7: for a non-empty manifest of files of the service, without a valid
\* explicit index and with a video-like file, the result is the remote id of
\* the largest video-like file, the earliest one at a tie.
C7_LargestVideoWins ==
    (/\ PickDone
     /\ pickFiles # << >>
     /\ WellFormed(pickFiles)
     /\ ~PickValidIdx
     /\ VideoPositions # {})
    => pickOut = pickFiles[LargestVideo].ID

\* C7 witness: two video files of the same size after a larger non-video
\* file; the first video file was picked.
C7_Witness ==
    /\ PickDone
    /\ pickIdx = NilIdx
    /\ pickFiles = << File(3, P_txt, 900), File(2, P_MKV, 500), File(1, P_MKV, 500) >>
    /\ pickOut = 2

\* C8: a valid explicit index decides: the result is the remote id of the
\* file at that position, whatever its extension and size.
C8_ExplicitIndexWins ==
    (PickDone /\ PickValidIdx) => pickOut = pickFiles[pickIdx[1] + 1].ID

\* C8 witness: index 0 picked the non-video file although the manifest has
\* video files.
C8_Witness ==
    /\ PickDone
    /\ pickIdx = Ptr(0)
    /\ pickFiles = << File(1, P_txt, 900), File(2, P_MKV, 500), File(3, P_mp4, 700) >>
    /\ pickOut = 1

\* C9: for a non-empty manifest without a valid explicit index and without a
\* video-like file, the result is the remote id of the first entry.
C9_FirstEntryFallback ==
    (/\ PickDone
     /\ pickFiles # << >>
     /\ ~PickValidIdx
     /\ VideoPositions = {})
    => pickOut = pickFiles[1].ID

\* C9 witness: two non-video files and an index past the end; the first
\* file was picked.
C9_Witness ==
    /\ PickDone
    /\ pickIdx = Ptr(2)
    /\ pickFiles = << File(2, P_nfo, 700), File(1, P_txt, 900) >>
    /\ pickOut = 2

\* C10: for an empty manifest the result is 0 whatever the explicit index.
C10_EmptyManifestZero ==
    (PickDone /\ pickFiles = << >>) => pickOut = 0

\* C10 witness: an empty manifest with the explicit index 0.
C10_Witness ==
    /\ PickDone
    /\ pickFiles = << >>
    /\ pickIdx = Ptr(0)
    /\ pickOut = 0

(***************************************************************************)
(* Properties of buildMagnet, checked under SpecMagnet.                    *)
(***************************************************************************)
MagnetDone == mgPc = "done"

\* The tracker value of a source entry: the text after "tracker:", without
\* the white space around it.
TrackerValue(source) == TrimSpace(TrimPrefix(source, S_tracker))

IsTrackerEntry(source) == HasPrefix(source, S_tracker) /\ TrackerValue(source) # << >>

\* The tracker values of a source list, in the order of the list.
TrackerValues(sources) ==
    LET entries == SelectSeq(sources, IsTrackerEntry)
    IN  [k \in 1..Len(entries) |-> TrackerValue(entries[k])]

\* One "&tr=" parameter for every value of vals, from position k on, that
\* does not occur at an earlier position.
RECURSIVE TrParams(_, _)
TrParams(vals, k) ==
    IF k > Len(vals) THEN << >>
    ELSE (IF \A j \in 1..(k - 1) : vals[j] # vals[k]
          THEN S_tr \o QueryEscape(vals[k])
          ELSE << >>) \o TrParams(vals, k + 1)

\* C11: for a non-empty infoHash buildMagnet yields "magnet:?xt=urn:btih:",
\* the infoHash in lower case, and one "&tr=" parameter with the url-encoded
\* tracker value for every distinct tracker value of the source list, in
\* first-seen order and in the value's own case; entries that do not start
\* with "tracker:" contribute nothing.
C11_MagnetFormat ==
    (MagnetDone /\ mgStream.InfoHash # << >>)
        => mgOut = S_btih \o ToLower(mgStream.InfoHash)
                      \o TrParams(TrackerValues(mgStream.Sources), 1)

\* The example of the specification: sources tracker:B, tracker:A, tracker:B
\* and infoHash ABCDEF give magnet:?xt=urn:btih:abcdef&tr=B&tr=A.
C11_Witness ==
    /\ MagnetDone
    /\ mgStream.InfoHash = H_ABCDEF
    /\ mgStream.Sources = << Src_B, Src_A, Src_B >>
    /\ mgOut = S_btih \o << "a", "b", "c", "d", "e", "f",
                             "&", "t", "r", "=", "B", "&", "t", "r", "=", "A" >>

(***************************************************************************)
(* Properties of two calls on one client, checked under SpecTwo.           *)
(***************************************************************************)
TwoReturned(c) == calls[c].pc = "returned"

\* Call c has sent its register request.
TwoRegistered(c) == calls[c].pc \notin {"idle", "addMagnet"}

\* Every status and select request of call c carries the handle that the
\* response to its own register request held.
UsesOwnHandle(c) ==
    \A k \in DOMAIN log[c] :
        log[c][k].req.op \in {"info", "select"} => log[c][k].req.arg = log[c][1].resp.id

\* C13: two calls running concurrently for distinct descriptors share no
\* mutable state: each uses only the handle returned by its own register
\* request, and under every interleaving the result of each call is the
\* result of the same call running alone against the same service behaviour
\* (for a call whose own context ended before it returned: the magnet, which
\* is what resolveMagnet's error makes of every call, alone or not).
C13_ConcurrentCallsIndependent ==
    ((\A c \in Callers : calls[c].pc # "idle") /\ calls[1].stream # calls[2].stream)
        => \A c \in Callers :
               /\ UsesOwnHandle(c)
               /\ TwoReturned(c)
                    => calls[c].result =
                           IF calls[c].ctxDone THEN Result(calls[c].magnet, NoErr)
                           ELSE runAlone(startCall(calls[c].stream), << >>, world)

\* Both calls returned an unrestricted link for distinct descriptors, the
\* call that registered second being call 1.
C13_Witness ==
    /\ \A c \in Callers : TwoReturned(c) /\ calls[c].result.url \notin TwoMagnets
    /\ calls[1].stream # calls[2].stream
    /\ calls[1].torrentID = T_two
    /\ calls[2].torrentID = T_one
    /\ calls[1].result # calls[2].result

\* C14: nothing is cached or reused across calls: every call that enters
\* resolveMagnet sends its own register request first and only one, its
\* status and select requests carry the handle of that registration, the
\* file id it selects comes from the manifest of its own last poll, the
\* link it unrestricts from its own last poll, and its result is the
\* magnet or the download of its own unrestrict response.
C14_NoReuseAcrossCalls ==
    \A c \in Callers :
        TwoRegistered(c) =>
            LET l == log[c]
            IN  /\ l[1].req = Req("addMagnet", calls[c].magnet, << >>)
                /\ Cardinality({k \in DOMAIN l : l[k].req.op = "addMagnet"}) = 1
                /\ UsesOwnHandle(c)
                /\ \A d \in Callers \ {c} :
                       (TwoRegistered(d) /\ l[1].resp.id # << >>)
                           => log[d][1].resp.id # l[1].resp.id
                /\ \A k \in DOMAIN l :
                       /\ l[k].req.op = "select"
                            => l[k].req.files =
                                   << pickFileID(l[k - 1].resp.files, calls[c].stream.FileIdx) >>
                       /\ l[k].req.op = "unrestrict"
                            => l[k].req.arg = l[k - 1].resp.links[1]
                /\ TwoReturned(c)
                     => calls[c].result.url \in {calls[c].magnet, l[Len(l)].resp.download}

\* The same descriptor resolved by both calls: two register requests for the
\* same magnet, two handles, both calls returned.
C14_Witness ==
    /\ \A c \in Callers : TwoReturned(c) /\ calls[c].result.url \notin TwoMagnets
    /\ calls[1].stream = calls[2].stream
    /\ log[1][1].req = log[2][1].req
    /\ log[1][1].req.op = "addMagnet"
    /\ calls[1].torrentID # calls[2].torrentID

(***************************************************************************)
(* Properties of resolveMagnet's requests, checked under Spec.             *)
(***************************************************************************)
\* The command resolves a magnet with the unlock service: it has sent a
\* request and its stream is not a direct URL.
MagnetResolution == reqs # << >> /\ ~IsDirectURL(stream.URL)

ReqPositions(op) == {k \in DOMAIN reqs : reqs[k].op = op}

LastOp == reqs[Len(reqs)].op

\* C15: the requests of one magnet resolution go forward only: register
\* first and once, then metadata polls, then one select after a poll that
\* held the manifest, then link polls, then unrestrict as the last request
\* after a poll that held the links; every step follows the success of the
\* step before it, and after a failure, which ends the resolution at the
\* step it happened in, no request follows.
C15_ForwardOnly ==
    MagnetResolution =>
        /\ \A k \in DOMAIN reqs :
               /\ reqs[k].op \in {"addMagnet", "info", "select", "unrestrict"}
               /\ reqs[k].op = "addMagnet" <=> k = 1
               /\ reqs[k].op = "select" => k >= 3 /\ reqs[k - 1].op = "info"
               /\ reqs[k].op = "unrestrict"
                    => /\ k = Len(reqs)
                       /\ reqs[k - 1].op = "info"
                       /\ \E j \in ReqPositions("select") : j < k - 1
        /\ Cardinality(ReqPositions("select")) <= 1
        /\ Len(reqs) >= 2 => torrentID # << >>
        /\ ReqPositions("select") # {}
             => /\ Len(info.Files) > 0
                /\ selectedFileID # 0
        /\ (\E j \in ReqPositions("select") : j < Len(reqs)) => failedAt # "select"
        /\ ReqPositions("unrestrict") # {}
             => /\ readyLinks # << >>
                /\ reqs[Len(reqs)].arg = readyLinks[1]
        /\ rdErr # NoErr
             => /\ Returned
                /\ failedAt = "addMagnet" => Len(reqs) = 1
                /\ failedAt \in {"info_poll", "info_wait"}
                     => LastOp = "info" /\ ReqPositions("select") = {}
                /\ failedAt = "select" => LastOp = "select"
                /\ failedAt \in {"links_poll", "links_wait"}
                     => LastOp = "info" /\ ReqPositions("select") # {}
                /\ failedAt = "unrestrict" => LastOp = "unrestrict"

\* A resolution that went through every step and failed at the last one:
\* register, three metadata polls, select, two link polls, unrestrict.
C15_Witness ==
    /\ MagnetResolution
    /\ [k \in DOMAIN reqs |-> reqs[k].op]
           = << "addMagnet", "info", "info", "info", "select", "info", "info", "unrestrict" >>
    /\ failedAt = "unrestrict"
    /\ rdErr # NoErr

\* C16 as stated: a magnet resolution that has returned sent exactly one
\* register request and exactly one select request with exactly one file id.
C16_ExactlyOneRegisterAndSelect ==
    (MagnetResolution /\ Returned)
        => /\ Cardinality(ReqPositions("addMagnet")) = 1
           /\ Cardinality(ReqPositions("select")) = 1
           /\ \A k \in ReqPositions("select") : Len(reqs[k].files) = 1

\* C16, amended: a magnet resolution sends exactly one register request and
\* at most one select request, which carries exactly one file id, the picked
\* one; it has sent the select request when it returns a link or fails at
\* or after the select step, and none when it fails before that step.
C16_OneRegisterAtMostOneSelect ==
    MagnetResolution =>
        /\ Cardinality(ReqPositions("addMagnet")) = 1
        /\ Cardinality(ReqPositions("select")) <= 1
        /\ \A k \in ReqPositions("select") :
               Len(reqs[k].files) = 1 /\ reqs[k].files[1] = selectedFileID
        /\ Returned
             => (Cardinality(ReqPositions("select")) = 1
                    <=> (rdErr = NoErr
                         \/ failedAt \in {"select", "links_poll", "links_wait", "unrestrict"}))

\* A resolution that returned a link after selecting file 3 of the
\* three-file manifest.
C16_Witness ==
    /\ MagnetResolution
    /\ Returned
    /\ rdErr = NoErr
    /\ result.url = D_one
    /\ info.Files = M_three
    /\ \E k \in DOMAIN reqs : reqs[k].op = "select" /\ reqs[k].files = << 3 >>

(***************************************************************************)
(* Properties of the polling loops, checked under Spec.                    *)
(***************************************************************************)
\* The polls of waitForTorrentInfo: the status requests before select.
MetaPolls ==
    LET sel == ReqPositions("select")
    IN  Cardinality({k \in ReqPositions("info") : \A j \in sel : k < j})

\* The polls of waitForReadyLinks: the status requests after select.
LinkPolls ==
    LET sel == ReqPositions("select")
    IN  Cardinality({k \in ReqPositions("info") : \E j \in sel : j < k})

\* C17: waitForTorrentInfo sends at most 8 status polls; while it polls or
\* waits no poll has held a manifest; the manifest it returns is that of its
\* last poll, the 8th included, and no metadata poll follows it; it fails
\* with the metadata timeout exactly when it fails in the wait after the
\* 8th poll without taking the cancellation case, and a failure in an
\* earlier wait is the cancellation.
C17_MetadataPolls ==
    MagnetResolution =>
        LET polls == MetaPolls
        IN  /\ polls <= 8
            /\ pc = "info_poll" => info = NoInfo /\ polls = attempt
            /\ pc = "info_wait" => info = NoInfo /\ polls = attempt + 1
            /\ Len(info.Files) > 0 => pc \notin {"info_poll", "info_wait"}
            /\ pc = "select" => Len(info.Files) > 0 /\ polls = attempt + 1
            /\ rdErr = ErrMetadataTimeout
                 <=> (failedAt = "info_wait" /\ polls = 8 /\ rdErr # ErrCancelled)
            /\ (failedAt = "info_wait" /\ polls < 8) => rdErr = ErrCancelled
            /\ rdErr = ErrMetadataTimeout => info = NoInfo

\* The 8th poll held the manifest: waitForTorrentInfo returned it and
\* resolveMagnet is about to select.
C17_Witness ==
    /\ MagnetResolution
    /\ pc = "select"
    /\ MetaPolls = 8
    /\ info.Files = M_three
    /\ rdErr = NoErr

\* C18: waitForReadyLinks sends at most 30 status polls, counted from the
\* select request whatever the number of metadata polls before it; while
\* it polls or waits no poll has held a link; the links it returns are
\* those of its last poll and no link poll follows; it fails with the links
\* timeout exactly when it fails in the wait after its 30th poll without
\* taking the cancellation case.
C18_LinkPolls ==
    MagnetResolution =>
        LET polls == LinkPolls
        IN  /\ polls <= 30
            /\ pc = "links_poll" => readyLinks = << >> /\ polls = attempt
            /\ pc = "links_wait" => readyLinks = << >> /\ polls = attempt + 1
            /\ readyLinks # << >> => pc \notin {"links_poll", "links_wait"}
            /\ pc = "unrestrict" => readyLinks # << >> /\ polls = attempt + 1
            /\ rdErr = ErrLinksTimeout
                 <=> (failedAt = "links_wait" /\ polls = 30 /\ rdErr # ErrCancelled)
            /\ (failedAt = "links_wait" /\ polls < 30) => rdErr = ErrCancelled

\* The manifest came with the 8th metadata poll and all 30 link polls held
\* no link: the links timeout after 38 status requests.
C18_Witness ==
    /\ MagnetResolution
    /\ MetaPolls = 8
    /\ LinkPolls = 30
    /\ rdErr = ErrLinksTimeout
    /\ Returned

\* C19: in both polling loops a poll that fails (no response, a status of
\* 300 or more, or an undecodable body) ends the loop at once with the
\* error of that poll: resolveMagnet has returned, the failed poll is the
\* last request, and the error is neither timeout.
C19_PollErrorEndsLoop ==
    (MagnetResolution /\ LastOp = "info" /\ lastKind \in {"transport", "status", "decode"})
        => /\ Returned
           /\ failedAt \in {"info_poll", "links_poll"}
           /\ rdErr = CASE lastKind = "transport" -> ErrTransport
                         [] lastKind = "status"    -> ErrStatus
                         [] OTHER                  -> ErrDecode
           /\ rdErr \notin {ErrMetadataTimeout, ErrLinksTimeout}

\* The 4th poll of waitForReadyLinks got a status of 300 or more, after
\* three metadata polls.
C19_Witness ==
    /\ MagnetResolution
    /\ lastKind = "status"
    /\ failedAt = "links_poll"
    /\ attempt = 3
    /\ MetaPolls = 3
    /\ LinkPolls = 4
    /\ rdErr = ErrStatus

LoopWaits == {"info_wait", "links_wait"}

LoopPolls == {"info_poll", "links_poll"}

\* C20 as stated: once the context is done inside a polling loop, no
\* further poll is sent and the loop ends with the cancellation error.
C20_CancelReturnsCancelled ==
    [][(ctxDone /\ pc \in LoopWaits \cup LoopPolls)
          => /\ reqs' = reqs
             /\ pc' \notin LoopWaits \cup LoopPolls
                  => pc' = "returned" /\ rdErr' = ErrCancelled]_vars

\* C20, amended: once the context is done inside a polling loop, a wait
\* whose timer has not fired ends at once with the cancellation error and
\* without a further poll; a wait whose timer has fired ends with the
\* cancellation error or goes on as if the timer had been taken (the next
\* poll, or the timeout after the last attempt); a poll sent with the done
\* context fails in the transport and ends the loop with that error, so at
\* most one poll follows the cancellation and none gets a response.
C20_CancelEndsLoopPromptly ==
    [][(ctxDone /\ pc \in LoopWaits \cup LoopPolls /\ pc' # pc)
          => /\ (pc \in LoopWaits /\ ~timerFired)
                  => pc' = "returned" /\ rdErr' = ErrCancelled /\ reqs' = reqs
             /\ (pc \in LoopWaits /\ timerFired)
                  => /\ reqs' = reqs
                     /\ \/ pc' \in LoopPolls /\ rdErr' = NoErr
                        \/ /\ pc' = "returned"
                           /\ rdErr' \in {ErrCancelled, ErrMetadataTimeout, ErrLinksTimeout}
             /\ pc \in LoopPolls
                  => /\ pc' = "returned"
                     /\ rdErr' = ErrTransport
                     /\ lastKind' = "transport"
                     /\ Len(reqs') = Len(reqs) + 1]_vars

\* The context became done during the wait after the 2nd of the 8 metadata
\* polls: waitForTorrentInfo returned the cancellation error, no 3rd poll.
C20_Witness ==
    /\ MagnetResolution
    /\ ctxDone
    /\ ~timerFired
    /\ failedAt = "info_wait"
    /\ rdErr = ErrCancelled
    /\ attempt = 1
    /\ MetaPolls = 2
    /\ Returned

(***************************************************************************)
(* Properties of one resolve, checked under Spec.                          *)
(***************************************************************************)
\* C21: within one resolve, register, select and unrestrict are each sent
\* at most once, and once a request has failed (no response, a status of
\* 300 or more, an undecodable body) or resolveMagnet has an error of any
\* kind, a timeout included, the resolve has returned: the failed request
\* is the last one of the log.
C21_NoRetry ==
    /\ Cardinality(ReqPositions("addMagnet")) <= 1
    /\ Cardinality(ReqPositions("select")) <= 1
    /\ Cardinality(ReqPositions("unrestrict")) <= 1
    /\ (reqs # << >> /\ lastKind # "ok") => Returned /\ rdErr # NoErr
    /\ rdErr # NoErr => Returned

\* The select request of a resolve got a status of 300 or more: register,
\* one poll and the select are the whole log.
C21_Witness ==
    /\ Returned
    /\ lastKind = "status"
    /\ failedAt = "select"
    /\ rdErr = ErrStatus
    /\ [k \in DOMAIN reqs |-> reqs[k].op] = << "addMagnet", "info", "select" >>

\* C22: when pickFileID answers 0 for the manifest that waitForTorrentInfo
\* returned, the attempt stops: no select request, no link poll and no
\* unrestrict request is sent, and the resolve returns the magnet with a
\* nil error.
C22_PickZeroStops ==
    (MagnetResolution /\ Len(info.Files) > 0 /\ pickFileID(info.Files, stream.FileIdx) = 0)
        => /\ Returned
           /\ rdErr = ErrPick
           /\ failedAt = "info_poll"
           /\ ReqPositions("select") = {}
           /\ ReqPositions("unrestrict") = {}
           /\ LastOp = "info"
           /\ LinkPolls = 0
           /\ result = Result(magnet, NoErr)
           /\ magnet # << >>

\* The third metadata poll held the manifest whose only file has id 0.
C22_Witness ==
    /\ MagnetResolution
    /\ info.Files = M_zero
    /\ rdErr = ErrPick
    /\ MetaPolls = 3
    /\ result.url = magnet


(***************************************************************************)
(* The functions of the unlock client applied alone, each to one HTTP      *)
(* response given by its status code and body.                             *)
(***************************************************************************)

\* What http.Client.Do hands back: doErr for a failed exchange, else the
\* status code and the body (decodable as JSON or not, and its fields).
HttpResp(doErr, status, decodable, id, files, links, download) ==
    [doErr |-> doErr, status |-> status, decodable |-> decodable, id |-> id,
     files |-> files, links |-> links, download |-> download]

\* getJSON and postForm: how they take the response h.
kindOf(h) ==
    IF h.doErr THEN "transport"
    ELSE IF h.status >= 300 THEN "status"
    ELSE IF ~h.decodable THEN "decode"
    ELSE "ok"

respOf(h) == Resp(kindOf(h), h.id, h.files, h.links, h.download)

\* The status code written into the error of getJSON and postForm (0: the
\* error, if any, names no status).
statusCarried(h) == IF kindOf(h) = "status" THEN h.status ELSE 0

\* Whether getJSON or postForm hands the body to the JSON decoder.
bodyDecoded(h, hasOut) == ~h.doErr /\ h.status < 300 /\ hasOut

NoPayload == [id |-> << >>, files |-> << >>, links |-> << >>, download |-> << >>]

\* resolveMagnet, lines 325-334: the select step on the picked file id. The
\* id 0 ends the attempt before selectFiles is called; any other id is
\* handed to selectFiles as a list of one.
selectFile(id, r) ==
    IF pickFailed(id) THEN ErrPick
    ELSE selectFiles(selectedIDs(id), r)

\* The four functions of the client applied alone, and "selectFile", the
\* select step of resolveMagnet, which is the one caller of selectFiles.
ClientOps == {"addMagnet", "torrentInfo", "selectFiles", "selectFile", "unrestrictLink"}

\* One function of the client on the call in: what it returns (val, err),
\* the status its error carries, whether a request was sent and whether the
\* body was decoded.
clientCall(in) ==
    LET h == in.resp
        r == respOf(h)
        out(val, err, sent, hasOut) ==
            [val |-> val, err |-> err, sent |-> sent,
             code |-> IF sent THEN statusCarried(h) ELSE 0,
             decoded |-> sent /\ bodyDecoded(h, hasOut)]
    IN CASE in.op = "addMagnet" ->
              out([NoPayload EXCEPT !.id = addMagnet(r).val], addMagnet(r).err, TRUE, TRUE)
         [] in.op = "torrentInfo" ->
              out([NoPayload EXCEPT !.files = torrentInfo(r).val.Files,
                                    !.links = torrentInfo(r).val.Links],
                  torrentInfo(r).err, TRUE, TRUE)
         [] in.op = "selectFiles" ->
              out(NoPayload, selectFiles(in.fileIDs, r), Len(in.fileIDs) # 0, FALSE)
         [] in.op = "selectFile" ->
              out(NoPayload, selectFile(in.fileID, r),
                  ~pickFailed(in.fileID) /\ Len(selectedIDs(in.fileID)) # 0, FALSE)
         [] in.op = "unrestrictLink" ->
              out([NoPayload EXCEPT !.download = unrestrictLink(r).val],
                  unrestrictLink(r).err, TRUE, TRUE)

\* The status codes the service answers with.
Statuses == {101, 200, 204, 299, 300, 404, 503}

\* The file ids pickFileID returns: 0 for no file, else the id of a file.
PickedIDs == {0, 1, 3}

\* The id lists selectFiles is applied to when it is called alone.
FileIDLists == {<< >>, << 0 >>, << 3 >>, << 0, 2 >>}

HttpResps ==
    {HttpResp(TRUE, 0, FALSE, << >>, << >>, << >>, << >>)} \cup
    {HttpResp(FALSE, st, d, id, f, l, dl) :
        st \in Statuses, d \in BOOLEAN, id \in {<< >>, T_one},
        f \in {<< >>, M_txt}, l \in ServiceLinks, dl \in {<< >>, D_one}}

ClientCalls ==
    {[op |-> op, fileID |-> 0, fileIDs |-> << >>, resp |-> h] :
        op \in ClientOps \ {"selectFiles", "selectFile"}, h \in HttpResps} \cup
    {[op |-> "selectFiles", fileID |-> 0, fileIDs |-> ids, resp |-> h] :
        ids \in FileIDLists, h \in HttpResps} \cup
    {[op |-> "selectFile", fileID |-> id, fileIDs |-> selectedIDs(id), resp |-> h] :
        id \in PickedIDs, h \in HttpResps}

InitClient ==
    /\ PipeInit(<< >>)
    /\ PickOff
    /\ MagOff
    /\ calls = << >>
    /\ svc = << >>
    /\ world = << >>
    /\ log = << >>
    /\ clIn \in ClientCalls
    /\ clOut = << >>
    /\ clPc = "ready"
    /\ SearchOff
    /\ UIOff

CallClient ==
    /\ clPc = "ready"
    /\ clOut' = clientCall(clIn)
    /\ clPc' = "done"
    /\ UNCHANGED << clIn, pipeVars, pickVars, magVars, twoVars, srVars, uiVars >>

NextClient == CallClient

SpecClient == InitClient /\ [][NextClient]_vars

ClientDone(op) == clPc = "done" /\ clIn.op = op

\* C23: selectFile on the file id 0 fails with the selection error and sends
\* no select request; on any other file id the request is sent for that id
\* alone, the call never fails with the selection error, and when a response
\* came back it fails only with the status error, on a status outside 2xx.
C23_ZeroIdRejected ==
    ClientDone("selectFile") =>
        IF clIn.fileID = 0
        THEN clOut.err = ErrPick /\ ~clOut.sent
        ELSE /\ clOut.sent
             /\ clOut.err \in {NoErr, ErrStatus, ErrTransport}
             /\ clOut.err = ErrTransport <=> clIn.resp.doErr
             /\ clOut.err = ErrStatus =>
                  /\ ~(clIn.resp.status \in 200..299)
                  /\ clOut.code = clIn.resp.status

C23_Witness ==
    /\ ClientDone("selectFile")
    /\ clIn.fileID = 0
    /\ clIn.resp.status = 204
    /\ ~clIn.resp.doErr
    /\ clOut.err = ErrPick
    /\ ~clOut.sent

\* C26: for each of the four endpoints, a response whose status is not 2xx
\* is an error carrying the status code; the operation fails and the body is
\* never decoded as a success payload.
C26_Non2xxIsRemoteError ==
    (clPc = "done" /\ clOut.sent /\ ~clIn.resp.doErr
        /\ ~(clIn.resp.status \in 200..299))
        => /\ clOut.err = ErrStatus
           /\ clOut.code = clIn.resp.status
           /\ ~clOut.decoded
           /\ clOut.val = NoPayload


\* The register request of a magnet resolution was accepted without an id.
EmptyHandleGiven ==
    /\ MagnetResolution
    /\ reqs[1].op = "addMagnet"
    /\ Len(reqs) = 1
    /\ lastKind = "ok"
    /\ torrentID = << >>

\* C24: a register request accepted without an identifier fails the
\* registration with the empty-id error; no status poll, select or
\* unrestrict request follows, and the resolve returns the magnet.
C24_EmptyHandleFallsBack ==
    /\ EmptyHandleGiven =>
         /\ rdErr = ErrEmptyID
         /\ failedAt = "addMagnet"
         /\ Returned
         /\ result = Result(magnet, NoErr)
         /\ magnet # << >>
    /\ (MagnetResolution /\ torrentID = << >>) => Len(reqs) = 1
    /\ rdErr = ErrEmptyID => EmptyHandleGiven

C24_Witness ==
    /\ EmptyHandleGiven
    /\ rdErr = ErrEmptyID
    /\ pc = "done"
    /\ played = << magnet >>

\* C25: a resolve never returns an empty URL with a nil error: the URL is the
\* raw URL, the non-empty magnet or a non-empty download URL; an accepted
\* unrestrict request without a download URL is an error and gives the
\* fallback.
C25_NeverEmptySuccess ==
    Returned =>
        /\ result.err = NoErr =>
             /\ result.url # << >>
             /\ \/ result.url = stream.URL
                \/ result.url = magnet
                \/ result.url = link /\ rdErr = NoErr /\ LastOp = "unrestrict"
        /\ (reqs # << >> /\ LastOp = "unrestrict" /\ lastKind = "ok" /\ link = << >>) =>
             /\ rdErr = ErrEmptyDownload
             /\ result = Result(IF IsDirectURL(stream.URL) THEN stream.URL ELSE magnet, NoErr)
        /\ rdErr = ErrEmptyDownload => (LastOp = "unrestrict" /\ lastKind = "ok")

C25_Witness ==
    /\ Returned
    /\ MagnetResolution
    /\ Len(reqs) > 1
    /\ rdErr = ErrEmptyDownload
    /\ result = Result(magnet, NoErr)


\* The positions of the log of call c with a request for op.
LogPositions(c, op) == {k \in 1..Len(log[c]) : log[c][k].req.op = op}

\* The status response at position p of the log of call c shows links.
ShowsLinks(c, p) ==
    /\ log[c][p].req.op = "info"
    /\ log[c][p].resp.kind = "ok"
    /\ log[c][p].resp.links # << >>

\* C27: ready links are consumed only after a successful select: links shown
\* by status responses of the metadata polling are ignored, and the link
\* handed to unrestrict is the first of the link list of the first status
\* response with links after the select succeeded.
C27_LinksOnlyAfterSelect ==
    \A c \in Callers :
        /\ (\A s \in LogPositions(c, "select") : log[c][s].resp.kind # "ok") =>
             /\ calls[c].readyLinks = << >>
             /\ LogPositions(c, "unrestrict") = {}
        /\ \A k \in LogPositions(c, "unrestrict") :
             /\ k > 2
             /\ ShowsLinks(c, k - 1)
             /\ log[c][k].req.arg = log[c][k - 1].resp.links[1]
             /\ \E s \in LogPositions(c, "select") :
                  /\ s < k - 1
                  /\ log[c][s].resp.kind = "ok"
                  /\ \A j \in (s + 1)..(k - 2) : ~ShowsLinks(c, j)

C27_Witness ==
    /\ calls[1].pc = "returned"
    /\ Len(log[1]) = 8
    /\ ShowsLinks(1, 2) /\ log[1][2].resp.links = << L_one >>
    /\ log[1][5].req.op = "select"
    /\ ~ShowsLinks(1, 6)
    /\ log[1][7].resp.links = << L_two, L_one >>
    /\ log[1][8].req = Req("unrestrict", L_two, << >>)
    /\ calls[1].result = Result(<< "d" >> \o L_two, NoErr)


\* The number of "&tr=" parameters of a magnet.
TrCount(m) == Cardinality({k \in 1..(Len(m) - 3) : SubSeq(m, k, k + 3) = S_tr})

\* The source entries that start with "tracker:", as a set of strings.
PrefixedEntries(sources) ==
    {sources[k] : k \in {j \in 1..Len(sources) : HasPrefix(sources[j], S_tracker)}}

\* C28 as stated: the synthesized magnet has exactly one "&tr=" parameter per
\* distinct source entry that starts with "tracker:", entries being the same
\* only when they are equal strings, so that an entry with an empty or blank
\* value and entries that differ in surrounding white space each count.
C28_OneTrPerDistinctEntry ==
    (MagnetDone /\ mgStream.InfoHash # << >>)
        => TrCount(mgOut) = Cardinality(PrefixedEntries(mgStream.Sources))

\* C28, amended: the synthesized magnet has exactly one "&tr=" parameter per
\* distinct non-empty tracker value, the value of an entry being the text
\* after "tracker:" without the white space around it: entries with an empty
\* or blank value give no parameter, and entries that differ only in the
\* white space around the value give one.
C28_OneTrPerDistinctValue ==
    (MagnetDone /\ mgStream.InfoHash # << >>)
        => TrCount(mgOut) =
             Cardinality({TrackerValue(e) : e \in PrefixedEntries(mgStream.Sources)}
                             \ {<< >>})

C28_Witness ==
    /\ MagnetDone
    /\ mgStream.InfoHash = H_ABCDEF
    /\ mgStream.Sources = << Src_Bsp, Src_none, Src_B >>
    /\ mgOut = S_btih \o << "a", "b", "c", "d", "e", "f", "&", "t", "r", "=", "B" >>


\* ResolvePlayableURL has classified the stream.
Classified == pc \notin {"idle", "resolve"}

\* C29: the classification goes by precedence. A raw URL that starts with
\* "http" in any case is a direct URL even when an infoHash is present: no
\* magnet is made and the only request is the unrestrict of the raw URL. A
\* raw URL that starts with "magnet:" in any case is the magnet, verbatim,
\* for the registration and the fallback. Only a raw URL that matches neither
\* gives a magnet synthesized from the infoHash, and then the raw URL is in
\* no request and no result.
C29_ClassificationPrecedence ==
    Classified =>
        LET u == stream.URL
            low == ToLower(u)
        IN  IF HasPrefix(low, S_http)
            THEN /\ magnet = << >>
                 /\ \A k \in 1..Len(reqs) : reqs[k] = Req("unrestrict", u, << >>)
                 /\ Len(reqs) <= 1
                 /\ Returned => /\ result.err = NoErr
                                /\ result.url = (IF rdErr = NoErr /\ reqs # << >> THEN link ELSE u)
            ELSE IF HasPrefix(low, S_magnet)
            THEN /\ magnet = u
                 /\ reqs # << >> => reqs[1] = Req("addMagnet", u, << >>)
                 /\ (Returned /\ (reqs = << >> \/ rdErr # NoErr)) => result = Result(u, NoErr)
            ELSE /\ magnet = (IF stream.InfoHash = << >> THEN << >>
                              ELSE S_btih \o ToLower(stream.InfoHash)
                                     \o TrParams(TrackerValues(stream.Sources), 1))
                 /\ reqs # << >> => reqs[1] = Req("addMagnet", magnet, << >>)
                 /\ \A k \in 1..Len(reqs) : reqs[k].arg # u
                 /\ (Returned /\ result.err = NoErr) =>
                      /\ result.url # u
                      /\ (reqs = << >> \/ rdErr # NoErr) => result.url = magnet
                 /\ (Returned /\ stream.InfoHash = << >>) => result = Result(<< >>, ErrNoPlayable)

C29_Witness ==
    /\ Returned
    /\ stream.URL = U_Magnet
    /\ stream.InfoHash # << >>
    /\ reqs # << >>
    /\ reqs[1] = Req("addMagnet", U_Magnet, << >>)
    /\ rdErr # NoErr
    /\ result = Result(U_Magnet, NoErr)


(***************************************************************************)
(* Client.Search: two goroutines, one per catalog, joined by a WaitGroup.  *)
(***************************************************************************)

\* Search, line 110: the number of results it returns at most.
MaxResults == 60

\* n media items of a catalog, named base + 1 .. base + n.
Items(base, n) == [k \in 1..n |-> base + k]

\* What fetchCatalog returns for a catalog: (items, nil) or (nil, err).
Catalog(items, err) == [items |-> items, err |-> err]

ErrMovie == "movie catalog error"

ErrSeries == "series catalog error"

MovieCatalogs ==
    {Catalog(<< >>, ErrMovie), Catalog(<< >>, NoErr), Catalog(Items(0, 2), NoErr),
     Catalog(Items(0, 40), NoErr)}

SeriesCatalogs ==
    {Catalog(<< >>, ErrSeries), Catalog(<< >>, NoErr), Catalog(Items(100, 1), NoErr),
     Catalog(Items(100, 40), NoErr)}

Queries == {<< >>, << " ", "\f" >>, << "q" >>, << "NBSP", "q", " " >>}

\* The WaitGroup lets Wait return although one goroutine is still running.
waitReturns_OneDone(wg) == wg <= 1

\* sync.WaitGroup.Wait returns when the counter is zero.
waitReturns(wg) == wg = 0

\* Search, lines 102-114: the result read from the locals after the join.
searchResult(mem) ==
    IF mem.errA # NoErr THEN Catalog(<< >>, mem.errA)
    ELSE IF mem.errB # NoErr THEN Catalog(<< >>, mem.errB)
    ELSE LET results == mem.movies \o mem.shows
         IN  Catalog(IF Len(results) > MaxResults THEN SubSeq(results, 1, MaxResults)
                     ELSE results, NoErr)

\* One access to a local of Search: by whom, to which variable, read or
\* write, and the WaitGroup counter at that moment.
Access(who, var, kind, wg) == [who |-> who, var |-> var, kind |-> kind, wg |-> wg]

InitSearch ==
    /\ PipeInit(<< >>)
    /\ PickOff
    /\ MagOff
    /\ calls = << >>
    /\ svc = << >>
    /\ world = << >>
    /\ log = << >>
    /\ ClientOff
    /\ UIOff
    /\ \E q \in Queries, m \in MovieCatalogs, sh \in SeriesCatalogs :
         srIn = [query |-> q, movie |-> m, series |-> sh]
    /\ srPc = [main |-> "start", A |-> "none", B |-> "none"]
    /\ srMem = [movies |-> << >>, shows |-> << >>, errA |-> NoErr, errB |-> NoErr, wg |-> 0]
    /\ srOut = << >>
    /\ srLog = [reqs |-> {}, acc |-> {}]

searchFrame == << pipeVars, pickVars, magVars, twoVars, clVars, uiVars >>

\* Search up to wg.Wait: a blank query returns (nil, nil); otherwise the
\* counter is set to 2 and the two goroutines are started.
SearchStart ==
    /\ srPc.main = "start"
    /\ IF TrimSpace(srIn.query) = << >>
       THEN /\ srPc' = [srPc EXCEPT !.main = "returned"]
            /\ srOut' = Catalog(<< >>, NoErr)
            /\ UNCHANGED srMem
       ELSE /\ srPc' = [main |-> "wait", A |-> "fetch", B |-> "fetch"]
            /\ srMem' = [srMem EXCEPT !.wg = 2]
            /\ UNCHANGED srOut
    /\ UNCHANGED << srIn, srLog, searchFrame >>

\* The first goroutine: fetchCatalog for "movie", assigned to movies, errA.
MovieFetch ==
    /\ srPc.A = "fetch"
    /\ srMem' = [srMem EXCEPT !.movies = srIn.movie.items, !.errA = srIn.movie.err]
    /\ srLog' = [reqs |-> srLog.reqs \cup {<< "movie", TrimSpace(srIn.query) >>},
                 acc |-> srLog.acc \cup {Access("A", "movies", "write", srMem.wg),
                                         Access("A", "errA", "write", srMem.wg)}]
    /\ srPc' = [srPc EXCEPT !.A = "fetched"]
    /\ UNCHANGED << srIn, srOut, searchFrame >>

\* The deferred wg.Done of the first goroutine.
MovieDone ==
    /\ srPc.A = "fetched"
    /\ srMem' = [srMem EXCEPT !.wg = @ - 1]
    /\ srPc' = [srPc EXCEPT !.A = "done"]
    /\ UNCHANGED << srIn, srOut, srLog, searchFrame >>

\* The second goroutine: fetchCatalog for "series", assigned to shows, errB.
SeriesFetch ==
    /\ srPc.B = "fetch"
    /\ srMem' = [srMem EXCEPT !.shows = srIn.series.items, !.errB = srIn.series.err]
    /\ srLog' = [reqs |-> srLog.reqs \cup {<< "series", TrimSpace(srIn.query) >>},
                 acc |-> srLog.acc \cup {Access("B", "shows", "write", srMem.wg),
                                         Access("B", "errB", "write", srMem.wg)}]
    /\ srPc' = [srPc EXCEPT !.B = "fetched"]
    /\ UNCHANGED << srIn, srOut, searchFrame >>

\* The deferred wg.Done of the second goroutine.
SeriesDone ==
    /\ srPc.B = "fetched"
    /\ srMem' = [srMem EXCEPT !.wg = @ - 1]
    /\ srPc' = [srPc EXCEPT !.B = "done"]
    /\ UNCHANGED << srIn, srOut, srLog, searchFrame >>

\* wg.Wait returns; Search reads the locals and returns.
SearchJoin ==
    /\ srPc.main = "wait"
    /\ waitReturns(srMem.wg)
    /\ srOut' = searchResult(srMem)
    /\ srLog' = [srLog EXCEPT !.acc = @ \cup
                    {Access("main", v, "read", srMem.wg) :
                        v \in {"errA"} \cup
                              (IF srMem.errA # NoErr THEN {} ELSE {"errB"}) \cup
                              (IF srMem.errA # NoErr \/ srMem.errB # NoErr THEN {}
                               ELSE {"movies", "shows"})}]
    /\ srPc' = [srPc EXCEPT !.main = "returned"]
    /\ UNCHANGED << srIn, srMem, searchFrame >>

NextSearch ==
    \/ SearchStart
    \/ MovieFetch
    \/ MovieDone
    \/ SeriesFetch
    \/ SeriesDone
    \/ SearchJoin

SpecSearch == InitSearch /\ [][NextSearch]_vars

SearchReturned == srPc.main = "returned"

\* C30: Search with a non-blank query sends the movie and the series query
\* and returns only after both goroutines are done; an error of either
\* catalog is returned, and neither catalog is skipped when the other fails;
\* each goroutine writes its own two locals, which Search reads only after
\* the join.
C30_SearchJoinsBoth ==
    /\ (SearchReturned /\ TrimSpace(srIn.query) # << >>) =>
         /\ srPc.A = "done" /\ srPc.B = "done"
         /\ srLog.reqs = {<< "movie", TrimSpace(srIn.query) >>,
                          << "series", TrimSpace(srIn.query) >>}
         /\ (srIn.movie.err # NoErr \/ srIn.series.err # NoErr) =>
              /\ srOut.err \in {srIn.movie.err, srIn.series.err} \ {NoErr}
              /\ srOut.items = << >>
         /\ (srIn.movie.err = NoErr /\ srIn.series.err = NoErr) =>
              /\ srOut.err = NoErr
              /\ Len(srOut.items) <= MaxResults
              /\ \A k \in 1..Len(srOut.items) :
                   srOut.items[k] = (srIn.movie.items \o srIn.series.items)[k]
    /\ \A a \in srLog.acc :
         /\ a.who = "A" => a.kind = "write" /\ a.var \in {"movies", "errA"}
         /\ a.who = "B" => a.kind = "write" /\ a.var \in {"shows", "errB"}
         /\ a.who = "main" => a.kind = "read" /\ a.wg = 0
                                /\ srPc.A = "done" /\ srPc.B = "done"

C30_Witness ==
    /\ SearchReturned
    /\ srIn.query = << "NBSP", "q", " " >>
    /\ srIn.movie.err = ErrMovie
    /\ srIn.series.items = Items(100, 1)
    /\ srMem.shows = Items(100, 1)
    /\ srOut = Catalog(<< >>, ErrMovie)
    /\ srLog.reqs = {<< "movie", << "q" >> >>, << "series", << "q" >> >>}


(***************************************************************************)
(* The open-stream command under fair scheduling: a request that was sent  *)
(* gets its response or its failure, a pending timer fires or the context  *)
(* ends, and a returned resolve is followed by the player step.            *)
(***************************************************************************)
SpecLive == Init /\ [][Next]_vars /\ WF_vars(Next)

\* The requests of one resolve stay within 1 register, 8 metadata polls,
\* 1 select, 30 link polls and 1 unrestrict.
ReqBudget ==
    /\ Cardinality(ReqPositions("addMagnet")) <= 1
    /\ Cardinality(ReqPositions("select")) <= 1
    /\ Cardinality(ReqPositions("unrestrict")) <= 1
    /\ MagnetResolution => MetaPolls <= MetaAttempts /\ LinkPolls <= LinkAttempts
    /\ Len(reqs) <= 1 + MetaAttempts + 1 + LinkAttempts + 1

\* C32: every resolve eventually returns when every request eventually
\* returns, and on the way it sends at most 1 register, 8 metadata polls,
\* 1 select, 30 link polls and 1 unrestrict request.
C32_ResolveReturns == []ReqBudget /\ <>Returned

\* The longest resolve: 41 requests, the last one the unrestrict.
C32_Witness ==
    /\ Returned
    /\ Len(reqs) = 41
    /\ MetaPolls = 8
    /\ LinkPolls = 30
    /\ LastOp = "unrestrict"


\* C33: in both polling loops every attempt without result, the last one
\* included, is followed by the wait: a new poll starts only after as many
\* taken timers as polls, a timeout is reported only from the wait after the
\* last poll with its timer fired (N polls and N waits), and a failure in a
\* wait whose timer has not fired, the wait after the last attempt
\* included, is the cancellation.
C33_WaitAfterEveryAttempt ==
    MagnetResolution =>
        LET mp == MetaPolls
            lp == LinkPolls
        IN  /\ pc = "info_poll" => attempt = mp
            /\ pc = "links_poll" => attempt = lp
            /\ (LastOp = "info" /\ lastKind = "ok" /\ lp = 0 /\ info = NoInfo /\ pc # "info_poll")
                 => pc = "info_wait" \/ (Returned /\ failedAt = "info_wait")
            /\ (LastOp = "info" /\ lastKind = "ok" /\ lp > 0 /\ readyLinks = << >>
                  /\ pc # "links_poll")
                 => pc = "links_wait" \/ (Returned /\ failedAt = "links_wait")
            /\ rdErr = ErrMetadataTimeout
                 => failedAt = "info_wait" /\ timerFired /\ mp = MetaAttempts
                      /\ attempt = MetaAttempts
            /\ rdErr = ErrLinksTimeout
                 => failedAt = "links_wait" /\ timerFired /\ lp = LinkAttempts
                      /\ attempt = LinkAttempts
            /\ (failedAt \in LoopWaits /\ ~timerFired) => rdErr = ErrCancelled

\* The context ended during the wait after the 30th link poll, before its
\* timer fired: the cancellation, not the links timeout.
C33_Witness ==
    /\ MagnetResolution
    /\ Returned
    /\ LinkPolls = 30
    /\ failedAt = "links_wait"
    /\ ~timerFired
    /\ rdErr = ErrCancelled


\* Every file of the manifest has a remote id of 1 or more.
IdsPositive(files) == \A k \in 1..Len(files) : files[k].ID >= 1

\* C34: for a manifest whose remote ids are all 1 or more, pickFileID
\* returns 0 exactly when the manifest is empty, and otherwise the id of a
\* file of the manifest, whatever the explicit index.
C34_ZeroOnlyForEmpty ==
    (PickDone /\ IdsPositive(pickFiles)) =>
        /\ pickOut = 0 <=> Len(pickFiles) = 0
        /\ Len(pickFiles) > 0 => \E k \in 1..Len(pickFiles) : pickFiles[k].ID = pickOut

\* Two files that are no videos, ids 2 and 1, and the explicit index -1: the
\* id of the first entry.
C34_Witness ==
    /\ PickDone
    /\ Len(pickFiles) = 2
    /\ IdsPositive(pickFiles)
    /\ pickIdx = Ptr(-1)
    /\ \A k \in 1..2 : ~isLikelyVideo(pickFiles[k].Path)
    /\ pickFiles[1].ID = 2
    /\ pickOut = 2


\* C35: for one open-stream command the player is called at most once, only
\* after ResolvePlayableURL has returned, with the URL it returned, and
\* exactly when it returned no error: also with the raw URL or the magnet
\* after a failed unlock, a timeout or the end of the 120 s context, and
\* never when the stream has no playable source.
C35_PlayerOnceWithResult ==
    /\ Len(played) <= 1
    /\ pc # "done" => played = << >>
    /\ pc = "done" =>
         /\ result.err = NoErr <=> played # << >>
         /\ played # << >> => played = << result.url >> /\ result.url # << >>
         /\ result.err # NoErr => msg = result.err
         /\ rdErr # NoErr =>
              played = << IF IsDirectURL(stream.URL) THEN stream.URL ELSE magnet >>
    /\ result.err # NoErr => result.err = ErrNoPlayable /\ reqs = << >>

\* The context ended in the wait after a link poll: the player gets the
\* magnet.
C35_Witness ==
    /\ pc = "done"
    /\ ctxDone
    /\ rdErr = ErrCancelled
    /\ failedAt = "links_wait"
    /\ played = << magnet >>
    /\ magnet # << >>


(***************************************************************************)
(* FetchStreams and the terminal interface (internal/app): the Model, its  *)
(* Update function, and the commands whose results come back as messages.  *)
(***************************************************************************)

\* Go's integer division, which truncates towards zero.
goDiv(a, b) == IF a >= 0 THEN a \div b ELSE -((-a) \div b)

\* clampCursor without the upper limit.
clampCursor_NoUpper(index, length) == IF index < 0 THEN 0 ELSE index

clampCursor(index, length) ==
    IF length <= 0 THEN 0
    ELSE IF index < 0 THEN 0
    ELSE IF index >= length THEN length - 1
    ELSE index

scrollStart(length, cursor, rows) ==
    IF rows <= 0 \/ length <= rows THEN 0
    ELSE LET start0 == clampCursor(cursor, length) - goDiv(rows, 2)
             start == IF start0 < 0 THEN 0 ELSE start0
             maxStart == length - rows
         IN  IF start > maxStart THEN maxStart ELSE start

\* cycleInOrder: the focus after current in order, or before it.
cycleInOrder(order, current, reverse) ==
    IF Len(order) = 0 THEN current
    ELSE LET found == {i \in 1..Len(order) : order[i] = current}
             idx == IF found = {} THEN 0
                    ELSE (CHOOSE i \in found : \A j \in found : i <= j) - 1
         IN  IF reverse
             THEN (IF idx - 1 < 0 THEN order[Len(order)] ELSE order[idx])
             ELSE order[((idx + 1) % Len(order)) + 1]

Digits == << "0", "1", "2", "3", "4", "5", "6", "7", "8", "9" >>

\* The %d of fmt.Sprintf.
RECURSIVE Itoa(_)
Itoa(n) ==
    IF n < 0 THEN << "-" >> \o Itoa(-n)
    ELSE IF n < 10 THEN << Digits[n + 1] >>
    ELSE Itoa(n \div 10) \o << Digits[(n % 10) + 1] >>

\* reloadStreamsCmd, line 447: fmt.Sprintf("%s:%d:%d", id, season, episode).
streamKey(id, season, episode) ==
    id \o << ":" >> \o Itoa(season) \o << ":" >> \o Itoa(episode)

\* sortedMapKeys: the keys of a map in increasing order.
RECURSIVE sortedKeys(_)
sortedKeys(keys) ==
    IF keys = {} THEN << >>
    ELSE LET k == CHOOSE x \in keys : \A y \in keys : x <= y
         IN  << k >> \o sortedKeys(keys \ {k})

sortedMapKeys(values) == sortedKeys(DOMAIN values)

\* values[key] of a Go map: nil for a missing key.
mapGet(values, key) == IF key \in DOMAIN values THEN values[key] ELSE << >>

\* A fileIdx as it stands in the JSON of a stream: absent or blank, null, a
\* number, a number or a text in quotes, a number with a fraction (n is its
\* integer part), or any other JSON value.
Token(kind, n) == [kind |-> kind, n |-> n]

parseOptionalInt(raw) ==
    CASE raw.kind \in {"absent", "null"}              -> NilIdx
      [] raw.kind \in {"int", "quotedInt", "float"}   -> Ptr(raw.n)
      [] OTHER                                        -> NilIdx

RawStream(name, title, rawURL, infoHash, fileIdx, sources) ==
    [Name |-> name, Title |-> title, URL |-> rawURL, InfoHash |-> infoHash,
     FileIdx |-> fileIdx, Sources |-> sources]

\* FetchStreams, lines 185-193: the entry made of one stream of the payload.
streamEntry(raw) ==
    [Name |-> TrimSpace(raw.Name), Title |-> TrimSpace(raw.Title),
     URL |-> TrimSpace(raw.URL), InfoHash |-> TrimSpace(raw.InfoHash),
     FileIdx |-> parseOptionalInt(raw.FileIdx), Sources |-> raw.Sources]

\* The test of FetchStreams that keeps every entry.
keepEntry_All(entry) == TRUE

\* FetchStreams, line 195: an entry without URL and infoHash is dropped.
keepEntry(entry) == ~(entry.URL = << >> /\ entry.InfoHash = << >>)

RECURSIVE streamEntries(_, _)
streamEntries(raws, k) ==
    IF k > Len(raws) THEN << >>
    ELSE (IF keepEntry(streamEntry(raws[k])) THEN << streamEntry(raws[k]) >> ELSE << >>)
             \o streamEntries(raws, k + 1)

ErrMissingID == "missing media id"

ErrUnsupportedType == "unsupported media type"

ErrRequest == "request failed"

\* Client.FetchStreams for item, given the error of the request and the
\* streams of the decoded payload.
FetchStreams(item, reqErr, raws) ==
    IF item.ID = << >> THEN [streams |-> << >>, err |-> ErrMissingID]
    ELSE IF item.Type \notin {"movie", "series"}
    THEN [streams |-> << >>, err |-> ErrUnsupportedType]
    ELSE IF reqErr # NoErr THEN [streams |-> << >>, err |-> reqErr]
    ELSE [streams |-> streamEntries(raws, 1), err |-> NoErr]


\* A MediaItem, by the two fields the interface reads.
Item(id, type) == [ID |-> id, Type |-> type]

NoItem == Item(<< >>, "")

\* The status line.  Update reads it once, to tell the text NewModel sets
\* from any text set later (line 143), and the status is kept to that: the
\* text of NewModel, or another.
Status(tag, n, k, err) == IF tag = "loading popular" THEN tag ELSE "other"

\* A command that runs outside Update and delivers one message.
NoEntry == [Name |-> << >>, Title |-> << >>, URL |-> << >>, InfoHash |-> << >>,
             FileIdx |-> NilIdx, Sources |-> << >>]

Cmd(kind, text, item, season, episode, st) ==
    [kind |-> kind, text |-> text, item |-> item, season |-> season, episode |-> episode,
     stream |-> st]

loadPopularCmd == Cmd("popular", << >>, NoItem, 0, 0, NoEntry)

loadSearchCmd(query) == Cmd("search", query, NoItem, 0, 0, NoEntry)

loadEpisodesCmd(id) == Cmd("episodes", id, NoItem, 0, 0, NoEntry)

loadStreamsCmd(item, season, episode, key) ==
    Cmd("streams", key, item, season, episode, NoEntry)

openStreamCmd(st) == Cmd("open", << >>, NoItem, 0, 0, st)

\* What Update and its helpers return: the model and the commands.
Out(m, cmds) == [m |-> m, cmds |-> cmds]

\* NewModel, for a client with or without the unlock token.
NewModel(rdEnabled) ==
    [width |-> 0, height |-> 0, mode |-> "browse", focus |-> "search",
     input |-> << >>, inputFocus |-> TRUE,
     movies |-> << >>, shows |-> << >>, searchResults |-> << >>, showSearch |-> FALSE,
     movieCursor |-> 0, rightCursor |-> 0,
     selected |-> NoItem, streams |-> << >>, streamCursor |-> 0, streamsReqKey |-> << >>,
     episodesBySeason |-> << >>, seasonOptions |-> << >>, episodeOptions |-> << >>,
     seasonCursor |-> 0, episodeCursor |-> 0,
     status |-> IF rdEnabled THEN Status("loading popular", 0, 0, NoErr)
                ELSE Status("no token", 0, 0, NoErr)]

setFocus(m, area) == [m EXCEPT !.focus = area, !.inputFocus = (area = "search")]

cycleBrowseFocus(m, reverse) ==
    setFocus(m, cycleInOrder(<< "movies", "right", "search" >>, m.focus, reverse))

cycleDetailFocus(m, reverse) ==
    setFocus(m, cycleInOrder(IF m.selected.Type = "series"
                             THEN << "streams", "season", "episode", "search" >>
                             ELSE << "streams", "search" >>, m.focus, reverse))

currentRightItems(m) == IF m.showSearch THEN m.searchResults ELSE m.shows

currentSeason(m) ==
    IF Len(m.seasonOptions) = 0 THEN 1
    ELSE m.seasonOptions[clampCursor(m.seasonCursor, Len(m.seasonOptions)) + 1]

currentEpisode(m) ==
    IF Len(m.episodeOptions) = 0 THEN 1
    ELSE m.episodeOptions[clampCursor(m.episodeCursor, Len(m.episodeOptions)) + 1]

syncEpisodeOptions(m) ==
    LET found == mapGet(m.episodesBySeason, currentSeason(m))
        episodes == IF Len(found) = 0 THEN << 1 >> ELSE found
    IN  [m EXCEPT !.episodeOptions = episodes,
                  !.episodeCursor = clampCursor(m.episodeCursor, Len(episodes))]

\* reloadStreamsCmd that leaves the recorded key as it is.
reloadStreamsCmd_KeepKey(m) ==
    [m |-> [m EXCEPT !.status = Status("loading streams for", 0, 0, NoErr)],
     cmds |-> << loadStreamsCmd(m.selected, currentSeason(m), currentEpisode(m),
                                streamKey(m.selected.ID, currentSeason(m),
                                          currentEpisode(m))) >>]

reloadStreamsCmd(m) ==
    LET season == currentSeason(m)
        episode == currentEpisode(m)
        key == streamKey(m.selected.ID, season, episode)
    IN  Out([m EXCEPT !.streamsReqKey = key,
                      !.status = Status("loading streams for", season, episode, NoErr)],
            << loadStreamsCmd(m.selected, season, episode, key) >>)

moveBrowseCursor(m, delta) ==
    IF m.focus = "movies"
    THEN [m EXCEPT !.movieCursor = clampCursor(m.movieCursor + delta, Len(m.movies))]
    ELSE IF m.focus = "right"
    THEN [m EXCEPT !.rightCursor =
                       clampCursor(m.rightCursor + delta, Len(currentRightItems(m)))]
    ELSE m

\* currentBrowseSelection: the item and whether there is one.
currentBrowseSelection(m) ==
    IF m.focus = "movies"
    THEN (IF m.movieCursor >= 0 /\ m.movieCursor < Len(m.movies)
          THEN [item |-> m.movies[m.movieCursor + 1], ok |-> TRUE]
          ELSE [item |-> NoItem, ok |-> FALSE])
    ELSE LET items == currentRightItems(m)
         IN  IF m.rightCursor >= 0 /\ m.rightCursor < Len(items)
             THEN [item |-> items[m.rightCursor + 1], ok |-> TRUE]
             ELSE [item |-> NoItem, ok |-> FALSE]

openDetail(m, item) ==
    LET m1 == [m EXCEPT !.mode = "detail", !.selected = item, !.streams = << >>,
                        !.streamCursor = 0, !.episodesBySeason = << << 1 >> >>,
                        !.seasonOptions = << 1 >>, !.episodeOptions = << 1 >>,
                        !.seasonCursor = 0, !.episodeCursor = 0]
        m2 == [setFocus(m1, "streams") EXCEPT !.status = Status("loading streams", 0, 0, NoErr)]
        r == reloadStreamsCmd(m2)
    IN  Out(r.m, r.cmds \o (IF item.Type = "series" THEN << loadEpisodesCmd(item.ID) >>
                            ELSE << >>))

detailMove(m, delta) ==
    IF m.focus = "streams"
    THEN Out([m EXCEPT !.streamCursor = clampCursor(m.streamCursor + delta, Len(m.streams))],
             << >>)
    ELSE IF m.selected.Type # "series" THEN Out(m, << >>)
    ELSE IF m.focus = "season"
    THEN LET m1 == [m EXCEPT !.seasonCursor =
                                 clampCursor(m.seasonCursor + delta, Len(m.seasonOptions))]
         IN  IF currentSeason(m) # currentSeason(m1)
             THEN reloadStreamsCmd(syncEpisodeOptions([m1 EXCEPT !.episodeCursor = 0]))
             ELSE Out(m1, << >>)
    ELSE IF m.focus = "episode"
    THEN LET m1 == [m EXCEPT !.episodeCursor =
                                 clampCursor(m.episodeCursor + delta, Len(m.episodeOptions))]
         IN  IF currentEpisode(m) # currentEpisode(m1)
             THEN reloadStreamsCmd(m1)
             ELSE Out(m1, << >>)
    ELSE Out(m, << >>)


\* The text input's Update for a key message: a rune key is put at the end
\* of the value and backspace takes the last rune away, when the input has
\* the focus; any other key leaves the value alone.
inputUpdate(m, key) ==
    IF ~m.inputFocus THEN m
    ELSE IF key \in {"a", " "} THEN [m EXCEPT !.input = m.input \o << key >>]
    ELSE IF key = "backspace" /\ Len(m.input) > 0
    THEN [m EXCEPT !.input = SubSeq(m.input, 1, Len(m.input) - 1)]
    ELSE m

withStatus(m, tag) == [m EXCEPT !.status = Status(tag, 0, 0, NoErr)]

\* updateBrowseKey, lines 285-301: the search is cleared.
clearSearch(m) ==
    withStatus([m EXCEPT !.showSearch = FALSE, !.searchResults = << >>, !.rightCursor = 0],
               "search cleared")

updateBrowseKey(m, key) ==
    CASE key = "tab"       -> Out(cycleBrowseFocus(m, FALSE), << >>)
      [] key = "shift+tab" -> Out(cycleBrowseFocus(m, TRUE), << >>)
      [] key = "left"      -> Out(setFocus(m, "movies"), << >>)
      [] key = "right"     -> Out(setFocus(m, "right"), << >>)
      [] key = "up"        -> Out(moveBrowseCursor(m, -1), << >>)
      [] key = "down"      -> Out(moveBrowseCursor(m, 1), << >>)
      [] key = "esc"       -> Out(IF m.showSearch THEN clearSearch(m) ELSE m, << >>)
      [] key = "enter"     ->
            IF m.focus = "search"
            THEN LET query == TrimSpace(m.input)
                 IN  IF query = << >> THEN Out(clearSearch(m), << >>)
                     ELSE Out(withStatus(m, "searching"), << loadSearchCmd(query) >>)
            ELSE LET sel == currentBrowseSelection(m)
                 IN  IF ~sel.ok THEN Out(m, << >>) ELSE openDetail(m, sel.item)
      [] OTHER             ->
            IF m.focus = "search" THEN Out(inputUpdate(m, key), << >>) ELSE Out(m, << >>)

\* updateDetailKey, lines 352-370 and 372-378: the Enter key.
detailEnter(m) ==
    IF m.focus = "streams"
    THEN (IF Len(m.streams) = 0 \/ m.streamCursor >= Len(m.streams)
          THEN Out(m, << >>)
          ELSE Out(withStatus(m, "resolving"),
                   << openStreamCmd(m.streams[m.streamCursor + 1]) >>))
    ELSE IF m.focus = "search"
    THEN LET query == TrimSpace(m.input)
         IN  IF query = << >> THEN Out(m, << >>)
             ELSE Out(withStatus(setFocus([m EXCEPT !.mode = "browse"], "search"),
                                 "searching"),
                      << loadSearchCmd(query) >>)
    ELSE Out(m, << >>)

updateDetailKey(m, key) ==
    CASE key = "tab"       -> Out(cycleDetailFocus(m, FALSE), << >>)
      [] key = "shift+tab" -> Out(cycleDetailFocus(m, TRUE), << >>)
      [] key = "left"      ->
            Out(IF m.selected.Type = "series" /\ m.focus \in {"season", "episode"}
                THEN setFocus(m, "streams") ELSE m, << >>)
      [] key = "right"     ->
            Out(IF m.selected.Type = "series" /\ m.focus = "streams"
                THEN setFocus(m, "season") ELSE m, << >>)
      [] key = "esc"       ->
            Out(withStatus(setFocus([m EXCEPT !.mode = "browse"], "right"), "back"), << >>)
      [] key = "up"        -> detailMove(m, -1)
      [] key = "down"      -> detailMove(m, 1)
      [] key = "enter"     -> detailEnter(m)
      [] OTHER             ->
            IF m.focus = "search" THEN Out(inputUpdate(m, key), << >>) ELSE Out(m, << >>)

\* Update for a key message; the keys that quit the program are left out.
updateKey(m, key) ==
    IF key = "/" THEN Out(setFocus(m, "search"), << >>)
    ELSE IF m.mode = "browse" THEN updateBrowseKey(m, key)
    ELSE updateDetailKey(m, key)

handleBrowseMouse(m, x, y) ==
    LET topHeight == m.height - 3
        leftWidth == goDiv(m.width - 1, 2)
        rows == topHeight - 2
    IN  IF x < leftWidth
        THEN (IF y < 2 THEN Out(setFocus(m, "movies"), << >>)
              ELSE LET idx == scrollStart(Len(m.movies), m.movieCursor, rows) + (y - 2)
                   IN  IF idx >= 0 /\ idx < Len(m.movies)
                       THEN openDetail(setFocus([m EXCEPT !.movieCursor = idx], "movies"),
                                       m.movies[idx + 1])
                       ELSE Out(m, << >>))
        ELSE IF x > leftWidth
        THEN LET items == currentRightItems(m)
             IN  IF y < 2 THEN Out(setFocus(m, "right"), << >>)
                 ELSE LET idx == scrollStart(Len(items), m.rightCursor, rows) + (y - 2)
                      IN  IF idx >= 0 /\ idx < Len(items)
                          THEN openDetail(setFocus([m EXCEPT !.rightCursor = idx], "right"),
                                          items[idx + 1])
                          ELSE Out(m, << >>)
        ELSE Out(m, << >>)

handleDetailMouse(m, x, y) ==
    LET topHeight == m.height - 3
        leftWidth == goDiv(m.width - 1, 2)
        seasonHeight == goDiv(topHeight, 2)
        episodeY == y - seasonHeight
    IN  IF x < leftWidth
        THEN (IF y < 2 THEN Out(setFocus(m, "streams"), << >>)
              ELSE LET idx == scrollStart(Len(m.streams), m.streamCursor, topHeight - 2)
                                  + (y - 2)
                   IN  IF idx >= 0 /\ idx < Len(m.streams)
                       THEN Out(setFocus([m EXCEPT !.streamCursor = idx], "streams"),
                                << openStreamCmd(m.streams[idx + 1]) >>)
                       ELSE Out(m, << >>))
        ELSE IF m.selected.Type # "series" THEN Out(m, << >>)
        ELSE IF y < seasonHeight
        THEN (IF y < 2 THEN Out(setFocus(m, "season"), << >>)
              ELSE LET idx == scrollStart(Len(m.seasonOptions), m.seasonCursor,
                                          seasonHeight - 2) + (y - 2)
                   IN  IF idx >= 0 /\ idx < Len(m.seasonOptions)
                       THEN (IF idx # m.seasonCursor
                             THEN reloadStreamsCmd(setFocus(syncEpisodeOptions(
                                      [m EXCEPT !.seasonCursor = idx, !.episodeCursor = 0]),
                                      "season"))
                             ELSE Out(setFocus(m, "season"), << >>))
                       ELSE Out(m, << >>))
        ELSE IF episodeY < 2 THEN Out(setFocus(m, "episode"), << >>)
        ELSE LET idx == scrollStart(Len(m.episodeOptions), m.episodeCursor,
                                    (topHeight - seasonHeight) - 2) + (episodeY - 2)
             IN  IF idx >= 0 /\ idx < Len(m.episodeOptions)
                 THEN (IF idx # m.episodeCursor
                       THEN reloadStreamsCmd(setFocus([m EXCEPT !.episodeCursor = idx],
                                                      "episode"))
                       ELSE Out(setFocus(m, "episode"), << >>))
                 ELSE Out(m, << >>)

\* handleMouse for a click of the left button at column x, row y.
handleMouse(m, x, y) ==
    IF m.width = 0 \/ m.height = 0 THEN Out(m, << >>)
    ELSE IF y >= m.height - 3 THEN Out(setFocus(m, "search"), << >>)
    ELSE IF m.mode = "browse" THEN handleBrowseMouse(m, x, y)
    ELSE handleDetailMouse(m, x, y)

\* Update, lines 128-134.
windowSize(m, w, h) == Out([m EXCEPT !.width = w, !.height = h], << >>)

\* Update, lines 136-146.
popularLoaded(m, movies, shows, err) ==
    IF err # NoErr THEN Out([m EXCEPT !.status = Status("popular failed", 0, 0, err)], << >>)
    ELSE LET m1 == [m EXCEPT !.movies = movies, !.shows = shows]
         IN  Out(IF m.status = Status("loading popular", 0, 0, NoErr) THEN withStatus(m1, "browse help")
                 ELSE m1, << >>)

\* Update whose search results are applied whatever their query is.
searchMatches_Any(m, query) == TRUE

\* Update, line 149: the results are those of the query in the input.
searchMatches(m, query) == query = TrimSpace(m.input)

\* Update, lines 148-162.
searchLoaded(m, query, results, err) ==
    IF ~searchMatches(m, query) THEN Out(m, << >>)
    ELSE IF err # NoErr
    THEN Out([m EXCEPT !.status = Status("search failed", 0, 0, err)], << >>)
    ELSE Out([m EXCEPT !.searchResults = results, !.showSearch = TRUE, !.rightCursor = 0,
                       !.focus = "right", !.inputFocus = FALSE,
                       !.status = Status("found", Len(results), 0, NoErr)], << >>)

\* Update, lines 164-181.
episodesLoaded(m, itemID, bySeason, err) ==
    IF m.mode # "detail" \/ itemID # m.selected.ID THEN Out(m, << >>)
    ELSE IF err # NoErr
    THEN Out([m EXCEPT !.status = Status("episodes failed", 0, 0, err)], << >>)
    ELSE LET keys == sortedMapKeys(bySeason)
             options == IF Len(keys) = 0 THEN << 1 >> ELSE keys
             m1 == [m EXCEPT !.episodesBySeason = bySeason, !.seasonOptions = options,
                             !.seasonCursor = IF m.seasonCursor >= Len(options) THEN 0
                                              ELSE m.seasonCursor]
         IN  reloadStreamsCmd(syncEpisodeOptions(m1))

\* Update, lines 183-202.
streamsLoaded(m, key, streams, err) ==
    IF m.mode # "detail" \/ key # m.streamsReqKey THEN Out(m, << >>)
    ELSE IF err # NoErr
    THEN Out([m EXCEPT !.streams = << >>, !.streamCursor = 0,
                       !.status = Status("streams failed", 0, 0, err)], << >>)
    ELSE Out([m EXCEPT !.streams = streams,
                       !.streamCursor = IF m.streamCursor >= Len(streams)
                                        THEN (IF Len(streams) - 1 > 0 THEN Len(streams) - 1
                                              ELSE 0)
                                        ELSE m.streamCursor,
                       !.status = IF Len(streams) = 0
                                  THEN Status("no streams", 0, 0, NoErr)
                                  ELSE Status("loaded", Len(streams), 0, NoErr)], << >>)

\* Update, lines 204-210.
streamOpened(m, err) ==
    IF err # NoErr THEN Out([m EXCEPT !.status = Status("open failed", 0, 0, err)], << >>)
    ELSE Out(withStatus(m, "opening"), << >>)


(***************************************************************************)
(* The interface as a program: the Model, the commands that run outside    *)
(* Update, and the messages Update is handed, in any order.                *)
(***************************************************************************)

\* The most commands that are in flight at a time.
MaxPending == 2

\* The values the search input takes.
InputValues == {<< >>, << "a" >>}

Keys == {"tab", "shift+tab", "left", "right", "up", "down", "esc", "enter", "/",
         "a", " ", "backspace"}

\* The terminal: 7 columns (the left pane ends before column 3) and 12 rows
\* (9 above the search box; the season pane takes the upper 4 of the right).
WindowSizes == {[Width |-> 7, Height |-> 12]}

\* The clicks, as << column, row >>.  In the left pane: the title, the
\* first two lines and the line after them.  In the right pane: the title,
\* the first two lines, the title and the first two lines of the episode
\* pane.  The column between the panes, and the search box.
Clicks == {<< 1, 0 >>, << 1, 2 >>, << 1, 3 >>, << 1, 4 >>,
           << 5, 0 >>, << 5, 2 >>, << 5, 3 >>, << 5, 4 >>, << 5, 6 >>, << 5, 7 >>,
           << 3, 2 >>, << 1, 9 >>}

Movie1 == Item(<< "m", "1" >>, "movie")

Series1 == Item(<< "s", "1" >>, "series")

\* What FetchPopular returns: (nil, nil, err) when either catalog fails, or
\* the two lists.
PopularResults ==
    {[movies |-> << >>, shows |-> << >>, err |-> ErrRequest],
     [movies |-> << Movie1 >>, shows |-> << Series1 >>, err |-> NoErr]}

\* What Search returns.
SearchResults ==
    {[results |-> << >>, err |-> ErrRequest],
     [results |-> << Series1, Movie1 >>, err |-> NoErr]}

\* What FetchSeriesEpisodes returns: the episodes of every season, or an error.
EpisodeResults ==
    {[bySeason |-> << >>, err |-> ErrRequest],
     [bySeason |-> (2 :> << 3, 4 >>) @@ (3 :> << 1 >>), err |-> NoErr]}

\* The streams the service lists for the request with this key: none, or
\* one with a URL and one with an info-hash among entries whose URL and
\* info-hash are blank.  Each is named after the request it answers.
Payloads(key) ==
    {<< >>,
     << RawStream(key, << >>, << "\f" >>, << >>, Token("int", 0), << >>),
        RawStream(key, << >>, << "u", " " >>, << >>, Token("absent", 0), << >>),
        RawStream(key, << >>, << >>, << >>, Token("null", 0), << >>),
        RawStream(key, << >>, << >>, << " ", "h" >>, Token("int", 1), << >>) >>}

\* What ResolvePlayableURL and the player return to openStreamCmd.
OpenResults == {NoErr, ErrRequest}

\* The commands as a bag.
cmdBag(cmds) ==
    [c \in {cmds[i] : i \in DOMAIN cmds} |->
        Cardinality({i \in DOMAIN cmds : cmds[i] = c})]

\* The message Update has handled last, where it is the result of a search,
\* of an episode load or of a stream load: its kind and its query, item id
\* or key.  Any other message or event is "other"; "init" stands before the
\* first.
Event(kind, text) == [kind |-> kind, text |-> text]

\* The tokens the program is started with: none, and one.
UITokens == {<< >>, << " ", "t", "k" >>}

\* main: the client is built from the token, the Model from the client, and
\* Init starts the load of the popular titles.
InitUI ==
    /\ \E t \in UITokens : PipeInit(t)
    /\ PickOff
    /\ MagOff
    /\ calls = << >>
    /\ svc = << >>
    /\ world = << >>
    /\ log = << >>
    /\ ClientOff
    /\ SearchOff
    /\ ui = NewModel(enabled(token))
    /\ uiPending = cmdBag(<< loadPopularCmd >>)
    /\ uiEv = Event("init", << >>)

uiFrame == << pipeVars, pickVars, magVars, twoVars, clVars, srVars >>

\* Update has handled a message: the model it returned is kept and the
\* commands it returned are started.
Handled(out, ev) ==
    /\ ui' = out.m
    /\ uiPending' = uiPending (+) cmdBag(out.cmds)
    /\ uiEv' = ev
    /\ UNCHANGED uiFrame

\* The same after the command c has delivered its message.
Delivered(c, out, ev) ==
    /\ ui' = out.m
    /\ uiPending' = (uiPending (-) cmdBag(<< c >>)) (+) cmdBag(out.cmds)
    /\ uiEv' = ev
    /\ UNCHANGED uiFrame

KeyPress ==
    \E key \in Keys :
        LET out == updateKey(ui, key)
        IN  /\ out.m.input \in InputValues
            /\ BagCardinality(uiPending) + Len(out.cmds) <= MaxPending
            /\ Handled(out, Event("other", << >>))

MouseClick ==
    \E click \in Clicks :
        LET out == handleMouse(ui, click[1], click[2])
        IN  /\ BagCardinality(uiPending) + Len(out.cmds) <= MaxPending
            /\ Handled(out, Event("other", << >>))

\* The terminal reports its size: at the start and whenever it is resized.
WindowSize ==
    \E size \in WindowSizes :
        Handled(windowSize(ui, size.Width, size.Height), Event("other", << >>))

PopularLoaded ==
    \E c \in BagToSet(uiPending), r \in PopularResults :
        /\ c.kind = "popular"
        /\ Delivered(c, popularLoaded(ui, r.movies, r.shows, r.err),
                     Event("other", << >>))

SearchLoaded ==
    \E c \in BagToSet(uiPending), r \in SearchResults :
        /\ c.kind = "search"
        /\ Delivered(c, searchLoaded(ui, c.text, r.results, r.err),
                     Event("search", c.text))

EpisodesLoaded ==
    \E c \in BagToSet(uiPending), r \in EpisodeResults :
        /\ c.kind = "episodes"
        /\ Delivered(c, episodesLoaded(ui, c.text, r.bySeason, r.err),
                     Event("episodes", c.text))

StreamsLoaded ==
    \E c \in BagToSet(uiPending), reqErr \in {NoErr, ErrRequest} :
        \E raws \in Payloads(c.text) :
            LET r == FetchStreams(c.item, reqErr, raws)
            IN  /\ c.kind = "streams"
                /\ Delivered(c, streamsLoaded(ui, c.text, r.streams, r.err),
                             Event("streams", c.text))

StreamOpened ==
    \E c \in BagToSet(uiPending), err \in OpenResults :
        /\ c.kind = "open"
        /\ Delivered(c, streamOpened(ui, err), Event("other", << >>))

NextUI ==
    \/ KeyPress
    \/ MouseClick
    \/ WindowSize
    \/ PopularLoaded
    \/ SearchLoaded
    \/ EpisodesLoaded
    \/ StreamsLoaded
    \/ StreamOpened

SpecUI == InitUI /\ [][NextUI]_vars


(***************************************************************************)
(* Claims about the interface.                                             *)
(***************************************************************************)

carriesLocator(st) == st.URL # << >> \/ st.InfoHash # << >>

\* C31: every stream FetchStreams produces carries a URL or an info-hash
\* that is not empty after trimming, since entries with neither are
\* dropped: this holds of the answer to every stream request in flight, of
\* the list the interface holds, and of every stream handed to
\* openStreamCmd.
C31_StreamsCarryLocator ==
    /\ \A c \in BagToSet(uiPending) :
         /\ c.kind = "streams" =>
              \A raws \in Payloads(c.text) :
                  LET r == FetchStreams(c.item, NoErr, raws)
                  IN  \A i \in DOMAIN r.streams : carriesLocator(r.streams[i])
         /\ c.kind = "open" => carriesLocator(c.stream)
    /\ \A i \in DOMAIN ui.streams : carriesLocator(ui.streams[i])

\* A payload of four entries, two of them blank, has been fetched and held
\* as two streams, and the one with the info-hash has been opened.
C31_Witness ==
    /\ Len(ui.streams) = 2
    /\ ui.streams[1].URL = << "u" >>
    /\ \E c \in BagToSet(uiPending) :
         c.kind = "open" /\ c.stream.InfoHash = << "h" >> /\ c.stream.URL = << >>


\* The message handled in this step was a result that no longer matches
\* the model as it stood before the step.
StaleDelivered ==
    \/ uiEv'.kind = "search" /\ uiEv'.text # TrimSpace(ui.input)
    \/ uiEv'.kind = "episodes" /\ (ui.mode # "detail" \/ uiEv'.text # ui.selected.ID)
    \/ uiEv'.kind = "streams" /\ (ui.mode # "detail" \/ uiEv'.text # ui.streamsReqKey)

\* C36: a result that arrives late changes no field of the model: the
\* results of a search whose query is not the trimmed text of the input, the
\* episodes of an item that is not the selected one or that arrive outside
\* the detail view, and the streams of a request whose key is not
\* streamsReqKey or that arrive outside the detail view.
C36_StaleLeavesModel == [][StaleDelivered => ui' = ui]_vars

\* Streams of an earlier request have arrived in the detail view, where the
\* list of the current request is held and its key is another.
C36_Witness ==
    /\ uiEv.kind = "streams"
    /\ ui.mode = "detail"
    /\ uiEv.text # ui.streamsReqKey
    /\ Len(ui.streams) = 2


\* 0 <= cursor < max(1, length)
cursorInBounds(cursor, length) ==
    0 <= cursor /\ cursor < (IF length > 1 THEN length ELSE 1)

\* The streams of the open commands started in this step.
openedNow ==
    {c.stream : c \in {d \in BagToSet(uiPending') :
                           d.kind = "open" /\ CopiesIn(d, uiPending') > CopiesIn(d, uiPending)}}

CursorsInBounds ==
    /\ cursorInBounds(ui.movieCursor, Len(ui.movies))
    /\ cursorInBounds(ui.rightCursor,
                      Len(IF ui.showSearch THEN ui.searchResults ELSE ui.shows))
    /\ cursorInBounds(ui.streamCursor, Len(ui.streams))
    /\ cursorInBounds(ui.seasonCursor, Len(ui.seasonOptions))
    /\ cursorInBounds(ui.episodeCursor, Len(ui.episodeOptions))

\* C37: after any sequence of keys, clicks and results every cursor of the
\* model is within its list, 0 <= cursor < max(1, length), and a stream
\* handed to openStreamCmd is an element of the list of streams held.
C37_CursorsWithinLists ==
    /\ []CursorsInBounds
    /\ [][\A st \in openedNow : \E i \in DOMAIN ui.streams : ui.streams[i] = st]_vars

\* The detail view was opened from the second of two search results, where
\* the list of shows holds one; the cursor is on the second of two streams
\* and that stream has been opened.
C37_Witness ==
    /\ ui.mode = "detail"
    /\ ui.showSearch
    /\ ui.rightCursor = 1
    /\ Len(ui.shows) = 1
    /\ ui.streamCursor = 1
    /\ Len(ui.streams) = 2
    /\ \E c \in BagToSet(uiPending) : c.kind = "open" /\ c.stream = ui.streams[2]


\* C38: in the detail view streamsReqKey is the key
\* <selected.ID>:<season>:<episode> of the item, season and episode now
\* selected; opening the view, the arrival of the episodes and a change of
\* season or episode by key or click each record the key of the stream
\* request they issue.
C38_ReqKeyIsCurrentSelection ==
    ui.mode = "detail" =>
        ui.streamsReqKey =
            ui.selected.ID \o << ":" >> \o Itoa(currentSeason(ui)) \o << ":" >>
                \o Itoa(currentEpisode(ui))

\* The episodes of the series have arrived, the second episode of the first
\* season listed has been chosen, and the key is that of season 2, episode 4.
C38_Witness ==
    /\ ui.mode = "detail"
    /\ ui.selected = Series1
    /\ ui.seasonOptions = << 2, 3 >>
    /\ ui.episodeCursor = 1
    /\ ui.streamsReqKey = << "s", "1", ":", "2", ":", "4" >>


\* The key of the item, season and episode selected in model m.
selectionKey(m) == streamKey(m.selected.ID, currentSeason(m), currentEpisode(m))

\* Every stream held answers the stream request issued last: the service
\* names each stream after the request it answers.
HeldStreamsAnswerLatest ==
    ui.mode = "detail" => \A i \in DOMAIN ui.streams : ui.streams[i].Name = ui.streamsReqKey

\* C39: in the detail view the list of streams held is empty or is the
\* answer to the stream request issued last, so a stream opened with Enter
\* or a click belongs to the item, season and episode selected, also while
\* a newer request is in flight.
C39_OpenedBelongsToSelection ==
    /\ []HeldStreamsAnswerLatest
    /\ [][\A st \in openedNow : st.Name = selectionKey(ui')]_vars

====
